---------------------------- MODULE Spec2Model ----------------------------
(***************************************************************************)
(* A model of the pppoe-rs discovery codec: the PPPoE header view          *)
(* (src/src/header.rs) and the tag codec (src/src/tags/tag.rs).            *)
(*                                                                         *)
(* A buffer is a caller-owned byte slice.  It is represented by its length *)
(* and the finite map of its non-zero bytes (offsets are 0-based, as in    *)
(* the source), so that slices of 64 KiB and more are ordinary values.     *)
(* Every operator that models a function of the source is named after it.  *)
(***************************************************************************)
EXTENDS Integers, Sequences, FiniteSets, TLC

VARIABLES
    buf,     \* the caller's buffer: [len, mem]
    hdr,     \* "none" | "created" | "parsed": the Header view held over buf
    last,    \* the last call: [op, arg, tag, res]
    pre,     \* the buffer as it was before the last call
    iter,    \* TagIterator: [on, pos, end]
    yielded, \* the tags the iterator has returned so far (views into buf)
    appended, \* the tags add_tag has appended to the payload and not cleared
    calls,   \* the number of calls made so far that write to the buffer
    pado,    \* the buffer of the received PADO that create_padr_from_pado reads
    tr101,   \* the Tr101Information the caller holds
    eth      \* the first 14 bytes of a frame's buffer: the Ethernet header's slice

vars == <<buf, hdr, last, pre, iter, yielded, appended, calls, pado, tr101, eth>>

\* what the calls on a Header leave alone
aux == <<pado, tr101, eth>>

(***************************************************************************)
(* Integer widths                                                          *)
(***************************************************************************)
U8  == 2^8
U16 == 2^16

Min(x, y) == IF x < y THEN x ELSE y

AsU8(n)  == n % U8
AsU16(n) == n % U16

(***************************************************************************)
(* Buffers                                                                 *)
(***************************************************************************)
NoBytes == [j \in {} |-> 0]

ByteAt(b, i) == IF i \in DOMAIN b.mem THEN b.mem[i] ELSE 0

\* copy_from_slice / byte stores: s is written at offsets off .. off+Len(s)-1
WriteBytes(b, off, s) ==
    LET idx == off .. (off + Len(s) - 1)
        new(j) == IF j \in idx THEN s[j - off + 1] ELSE b.mem[j]
        dom == {j \in (DOMAIN b.mem) \cup idx : new(j) # 0}
    IN  [b EXCEPT !.mem = [j \in dom |-> new(j)]]

MkBuffer(n, s) == WriteBytes([len |-> n, mem |-> NoBytes], 0, s)

\* the bytes of b at offsets from .. to-1, as a sequence
Slice(b, from, to) == [i \in 1 .. (to - from) |-> ByteAt(b, from + i - 1)]

\* byteorder::NetworkEndian
read_u16(b, off) == ByteAt(b, off) * 256 + ByteAt(b, off + 1)

BE16(v) == <<(v \div 256) % 256, v % 256>>

write_u16(b, off, v) == WriteBytes(b, off, BE16(v))

(***************************************************************************)
(* Results: Ok(v), Err(ParseError), or a panic (abort of the call)         *)
(***************************************************************************)
Ok(v)        == [kind |-> "Ok",    err |-> "",  a |-> v, b |-> 0]
Err(e, x, y) == [kind |-> "Err",   err |-> e,   a |-> x, b |-> y]
Panic(why)   == [kind |-> "Panic", err |-> why, a |-> 0, b |-> 0]

IsOk(r)  == r.kind = "Ok"
IsErr(r) == r.kind = "Err"

(***************************************************************************)
(* header.rs: codes                                                        *)
(***************************************************************************)
PADI == 9
PADO == 7
PADR == 25
PADS == 101
PADT == 167

Codes == {PADI, PADO, PADR, PADS, PADT}

NoCode == 0 - 1   \* expected_code = None

\* Code::try_from
Code_try_from(code) ==
    IF code \in Codes THEN Ok(code) ELSE Err("InvalidPppoeCode", code, 0)

(***************************************************************************)
(* tags/tag.rs: tag type codes                                             *)
(***************************************************************************)
TAG_END_OF_LIST         == 0
TAG_SERVICE_NAME        == 257
TAG_AC_NAME             == 258
TAG_HOST_UNIQ           == 259
TAG_AC_COOKIE           == 260
TAG_VENDOR_SPECIFIC     == 261
TAG_RELAY_SESSION_ID    == 272
TAG_SERVICE_NAME_ERROR  == 513
TAG_AC_SYSTEM_ERROR     == 514
TAG_GENERIC_ERROR       == 515
TAG_PPP_MAX_PAYLOAD     == 288
TAG_CREDITS             == 262
TAG_METRICS             == 263
TAG_SEQUENCE_NUMBER     == 264
TAG_CREDIT_SCALE_FACTOR == 265

(***************************************************************************)
(* tags/tag.rs: Tag.  A decoded tag borrows its value from the buffer: it  *)
(* is the view [kind, id, n1, n2, off, len], the value being the len bytes *)
(* at offset off.  A tag handed to write() owns its value: [.., val].      *)
(***************************************************************************)
OpaqueKind(tag) ==
    CASE tag = TAG_SERVICE_NAME       -> "ServiceName"
      [] tag = TAG_AC_NAME            -> "AcName"
      [] tag = TAG_HOST_UNIQ          -> "HostUniq"
      [] tag = TAG_AC_COOKIE          -> "AcCookie"
      [] tag = TAG_VENDOR_SPECIFIC    -> "VendorSpecific"
      [] tag = TAG_RELAY_SESSION_ID   -> "RelaySessionId"
      [] tag = TAG_SERVICE_NAME_ERROR -> "ServiceNameError"
      [] tag = TAG_AC_SYSTEM_ERROR    -> "AcSystemError"
      [] tag = TAG_GENERIC_ERROR      -> "GenericError"
      [] tag = TAG_METRICS            -> "Metrics"
      [] OTHER                        -> "Unknown"

View(kind, id, n1, n2, off, len) ==
    [kind |-> kind, id |-> id, n1 |-> n1, n2 |-> n2, off |-> off, len |-> len]

NoView == View("", 0, 0, 0, 0, 0)

Decoded(r, v, rest) == [res |-> r, tag |-> v, rest |-> rest]

\* the tag_type that from_buffer reports in TagWithInvalidLength
InvalidLengthTagType(tag) ==
    CASE tag = TAG_END_OF_LIST         -> TAG_END_OF_LIST
      [] tag = TAG_PPP_MAX_PAYLOAD     -> TAG_PPP_MAX_PAYLOAD
      [] tag = TAG_CREDITS             -> TAG_PPP_MAX_PAYLOAD
      [] tag = TAG_SEQUENCE_NUMBER     -> TAG_SEQUENCE_NUMBER
      [] tag = TAG_CREDIT_SCALE_FACTOR -> TAG_CREDIT_SCALE_FACTOR

\* the tags from_buffer accepts with one length only: that length, header included
FixedLength(tag) ==
    CASE tag = TAG_END_OF_LIST         -> 4
      [] tag = TAG_PPP_MAX_PAYLOAD     -> 6
      [] tag = TAG_CREDITS             -> 8
      [] tag = TAG_SEQUENCE_NUMBER     -> 6
      [] tag = TAG_CREDIT_SCALE_FACTOR -> 6

FixedTags == {TAG_END_OF_LIST, TAG_PPP_MAX_PAYLOAD, TAG_CREDITS,
              TAG_SEQUENCE_NUMBER, TAG_CREDIT_SCALE_FACTOR}

\* Tag::from_buffer on the slice b[pos .. end)
Tag_from_buffer(b, pos, end) ==
    LET total_length == end - pos
        tag    == read_u16(b, pos)
        length == read_u16(b, pos + 2) + 4
    IN  IF total_length < 4
        THEN Decoded(Err("IncompleteTag", AsU8(total_length), 0), NoView, pos)
        ELSE IF length > total_length
        THEN Decoded(Err("TagLengthOutOfBound", AsU16(length), AsU16(total_length)),
                     NoView, pos)
        ELSE IF tag \in FixedTags /\ length # FixedLength(tag)
        THEN Decoded(Err("TagWithInvalidLength", InvalidLengthTagType(tag), AsU16(length)),
                     NoView, pos)
        ELSE Decoded(Ok(0),
               CASE tag = TAG_END_OF_LIST -> View("EndOfList", 0, 0, 0, 0, 0)
                 [] tag = TAG_PPP_MAX_PAYLOAD ->
                        View("PppMaxMtu", 0, read_u16(b, pos + 4), 0, 0, 0)
                 [] tag = TAG_CREDITS ->
                        View("Credits", 0, read_u16(b, pos + 4), read_u16(b, pos + 6), 0, 0)
                 [] tag = TAG_SEQUENCE_NUMBER ->
                        View("SequenceNumber", 0, read_u16(b, pos + 4), 0, 0, 0)
                 [] tag = TAG_CREDIT_SCALE_FACTOR ->
                        View("CreditScaleFactor", 0, read_u16(b, pos + 4), 0, 0, 0)
                 [] OTHER ->
                        View(OpaqueKind(tag),
                             IF OpaqueKind(tag) = "Unknown" THEN tag ELSE 0,
                             0, 0, pos + 4, length - 4),
               pos + length)

(***************************************************************************)
(* header.rs: parsing                                                      *)
(***************************************************************************)
\* ensure_minimal_buffer_length with the bound off by one
ensure_minimal_buffer_length_5(b) ==
    IF b.len < 5 THEN Err("BufferTooSmall", b.len, 0) ELSE Ok(0)

\* Header::ensure_minimal_buffer_length
ensure_minimal_buffer_length(b) ==
    IF b.len < 6 THEN Err("BufferTooSmall", b.len, 0) ELSE Ok(0)

\* the match of validate_tags without its Host-Uniq arm
OnlyOnceTags_NoHostUniq ==
    {TAG_SERVICE_NAME, TAG_AC_NAME, TAG_AC_COOKIE,
     TAG_RELAY_SESSION_ID, TAG_PPP_MAX_PAYLOAD}

\* the match of validate_tags: the tags handed to check_duplicate
OnlyOnceTags ==
    {TAG_SERVICE_NAME, TAG_AC_NAME, TAG_AC_COOKIE, TAG_HOST_UNIQ,
     TAG_RELAY_SESSION_ID, TAG_PPP_MAX_PAYLOAD}

\* Header::check_duplicate, on the set of tags whose flag is set
check_duplicate(tag, exists) ==
    IF tag \in exists THEN Err("DuplicateTag", tag, 0) ELSE Ok(0)

\* the check after the loop without its test of what follows End-Of-List
AfterEol_LengthOnly(length, remaining, exists) ==
    IF length # 0
    THEN Err("DataBehindEolTag", 0, 0)
    ELSE IF TAG_SERVICE_NAME \notin exists
    THEN Err("MissingServiceName", 0, 0)
    ELSE Ok(0)

\* validate_tags, after the loop: the End-Of-List tag is at the slice's start
AfterEol(length, remaining, exists) ==
    IF length # 0 \/ remaining # 4
    THEN Err("DataBehindEolTag", 0, 0)
    ELSE IF TAG_SERVICE_NAME \notin exists
    THEN Err("MissingServiceName", 0, 0)
    ELSE Ok(0)

\* validate_tags: the loop, with the slice at b[pos .. end)
RECURSIVE ValidateLoop(_, _, _, _, _)
ValidateLoop(b, pos, end, total_packet_length, exists) ==
    LET total_length == end - pos
        tag    == read_u16(b, pos)
        length == read_u16(b, pos + 2)
        dup    == IF tag \in OnlyOnceTags THEN check_duplicate(tag, exists) ELSE Ok(0)
        marked == IF tag \in OnlyOnceTags THEN exists \cup {tag} ELSE exists
    IN  IF total_length = 0 THEN Ok(0)
        ELSE IF total_length < 4
        THEN Err("IncompleteTagAtPacketEnd", total_packet_length, AsU16(total_length))
        ELSE IF ~IsOk(dup) THEN dup
        ELSE IF tag = TAG_END_OF_LIST THEN AfterEol(length, total_length, marked)
        ELSE IF length + 4 > total_length
        THEN Err("TagLengthOutOfBound", AsU16(length), AsU16(total_length))
        ELSE ValidateLoop(b, pos + 4 + length, end, total_packet_length, marked)

\* validate_tags: the offset after the last byte the loop reads, the slice
\* being b[pos .. end) and high the offset after the last byte read so far
RECURSIVE ValidateReadEnd(_, _, _, _, _)
ValidateReadEnd(b, pos, end, exists, high) ==
    LET total_length == end - pos
        tag    == read_u16(b, pos)
        length == read_u16(b, pos + 2)
        dup    == IF tag \in OnlyOnceTags THEN check_duplicate(tag, exists) ELSE Ok(0)
        marked == IF tag \in OnlyOnceTags THEN exists \cup {tag} ELSE exists
    IN  IF total_length < 4 THEN high
        ELSE IF ~IsOk(dup) THEN pos + 2
        ELSE IF tag = TAG_END_OF_LIST \/ length + 4 > total_length THEN pos + 4
        ELSE ValidateReadEnd(b, pos + 4 + length, end, marked, pos + 4)

\* validate_tags walking the buffer from the payload's start to the buffer's end
validate_tags_to_buffer_end(b, from, to) ==
    ValidateLoop(b, from, b.len, AsU16(b.len - from), {})

\* Header::validate_tags on the payload b[from .. to)
validate_tags(b, from, to) == ValidateLoop(b, from, to, AsU16(to - from), {})

\* lines 51-59 with the type nibble tested in place of the version nibble
VersionTypeError_Swapped(byte0) ==
    IF byte0 % 16 # 1
    THEN Err("InvalidPppoeVersion", byte0 \div 16, 0)
    ELSE Err("InvalidPppoeType", byte0 % 16, 0)

\* from_buffer_with_code, lines 51-59: byte 0 is not 0x11
VersionTypeError(byte0) ==
    IF byte0 \div 16 # 1
    THEN Err("InvalidPppoeVersion", byte0 \div 16, 0)
    ELSE Err("InvalidPppoeType", byte0 % 16, 0)

\* from_buffer_with_code, lines 68-76: the length field against the buffer
CheckPayloadLength(length, buflen) ==
    IF length + 6 > buflen
    THEN Err("PayloadLengthOutOfBound", AsU16(buflen), AsU16(length))
    ELSE IF length = 0
    THEN Err("MissingServiceName", 0, 0)
    ELSE Ok(0)

\* lines 61-66 reporting the expected code in place of the frame's
CheckCode_ReportsExpected(code, expected_code) ==
    IF ~IsOk(Code_try_from(code)) THEN Code_try_from(code)
    ELSE IF expected_code # NoCode /\ code # expected_code
    THEN Err("UnexpectedCode", expected_code, 0)
    ELSE Ok(0)

\* from_buffer_with_code, lines 61-66
CheckCode(code, expected_code) ==
    IF ~IsOk(Code_try_from(code)) THEN Code_try_from(code)
    ELSE IF expected_code # NoCode /\ code # expected_code
    THEN Err("UnexpectedCode", code, 0)
    ELSE Ok(0)

\* from_buffer_with_code handing validate_tags all the bytes behind the header
from_buffer_with_code_whole_buffer(b, expected_code) ==
    LET length == read_u16(b, 4)
    IN  IF ~IsOk(ensure_minimal_buffer_length(b)) THEN ensure_minimal_buffer_length(b)
        ELSE IF ByteAt(b, 0) # 17 THEN VersionTypeError(ByteAt(b, 0))
        ELSE IF ~IsOk(CheckCode(ByteAt(b, 1), expected_code))
        THEN CheckCode(ByteAt(b, 1), expected_code)
        ELSE IF ~IsOk(CheckPayloadLength(length, b.len))
        THEN CheckPayloadLength(length, b.len)
        ELSE validate_tags(b, 6, b.len)

\* Header::from_buffer_with_code
from_buffer_with_code(b, expected_code) ==
    LET length == read_u16(b, 4)
    IN  IF ~IsOk(ensure_minimal_buffer_length(b)) THEN ensure_minimal_buffer_length(b)
        ELSE IF ByteAt(b, 0) # 17 THEN VersionTypeError(ByteAt(b, 0))
        ELSE IF ~IsOk(CheckCode(ByteAt(b, 1), expected_code))
        THEN CheckCode(ByteAt(b, 1), expected_code)
        ELSE IF ~IsOk(CheckPayloadLength(length, b.len))
        THEN CheckPayloadLength(length, b.len)
        ELSE validate_tags(b, 6, 6 + length)

\* Header::from_buffer
from_buffer(b) == from_buffer_with_code(b, NoCode)

(***************************************************************************)
(* header.rs: accessors.  len() adds 6 to the length field in u16: a sum   *)
(* above 65535 panics when the build checks overflow and wraps otherwise;  *)
(* wrap says which build this is.                                          *)
(***************************************************************************)
code(b) == ByteAt(b, 1)

session_id(b) == read_u16(b, 2)

PayloadLength(b) == read_u16(b, 4)

\* the builds that differ on len(): both when the sum overflows, else one
Builds(b) == IF 6 + PayloadLength(b) < U16 THEN {FALSE} ELSE BOOLEAN

len(b, wrap) ==
    IF 6 + PayloadLength(b) < U16 THEN Ok(6 + PayloadLength(b))
    ELSE IF wrap THEN Ok(AsU16(6 + PayloadLength(b)))
    ELSE Panic("attempt to add with overflow")

(***************************************************************************)
(* tags/tag.rs: encoding                                                   *)
(***************************************************************************)
Tag(kind, id, n1, n2, val) ==
    [kind |-> kind, id |-> id, n1 |-> n1, n2 |-> n2, val |-> val]

NoTag == Tag("", 0, 0, 0, <<>>)

EndOfList == Tag("EndOfList", 0, 0, 0, <<>>)

\* Tag::get_tag_type
get_tag_type(tag) ==
    CASE tag.kind = "EndOfList"         -> TAG_END_OF_LIST
      [] tag.kind = "ServiceName"       -> TAG_SERVICE_NAME
      [] tag.kind = "AcName"            -> TAG_AC_NAME
      [] tag.kind = "HostUniq"          -> TAG_HOST_UNIQ
      [] tag.kind = "AcCookie"          -> TAG_AC_COOKIE
      [] tag.kind = "VendorSpecific"    -> TAG_VENDOR_SPECIFIC
      [] tag.kind = "RelaySessionId"    -> TAG_RELAY_SESSION_ID
      [] tag.kind = "ServiceNameError"  -> TAG_SERVICE_NAME_ERROR
      [] tag.kind = "AcSystemError"     -> TAG_AC_SYSTEM_ERROR
      [] tag.kind = "GenericError"      -> TAG_GENERIC_ERROR
      [] tag.kind = "PppMaxMtu"         -> TAG_PPP_MAX_PAYLOAD
      [] tag.kind = "Credits"           -> TAG_CREDITS
      [] tag.kind = "Metrics"           -> TAG_METRICS
      [] tag.kind = "SequenceNumber"    -> TAG_SEQUENCE_NUMBER
      [] tag.kind = "CreditScaleFactor" -> TAG_CREDIT_SCALE_FACTOR
      [] tag.kind = "Unknown"           -> tag.id

\* the variants for which Tag::get_tuple returns (type, value); it is
\* unimplemented!() for the others
TupleKinds ==
    {"EndOfList", "ServiceName", "AcName", "HostUniq", "AcCookie", "VendorSpecific",
     "RelaySessionId", "ServiceNameError", "AcSystemError", "GenericError", "Unknown"}

Written(r, b) == [res |-> r, buf |-> b]

\* Tag::write into the slice b[off ..]
Tag_write(tag, b, off) ==
    LET available == b.len - off
    IN  IF tag.kind = "PppMaxMtu"
        THEN IF available < 6
             THEN Written(Err("BufferTooSmallForTag", Min(available, U16 - 1), 6), b)
             ELSE Written(Ok(6),
                    write_u16(write_u16(write_u16(b, off, TAG_PPP_MAX_PAYLOAD),
                                        off + 2, 2), off + 4, tag.n1))
        ELSE IF tag.kind \notin TupleKinds
        THEN Written(Panic("not implemented"), b)
        ELSE IF available < Len(tag.val) + 4
        THEN Written(Err("BufferTooSmallForTag", AsU16(available), Len(tag.val)), b)
        ELSE Written(Ok(4 + Len(tag.val)),
               WriteBytes(write_u16(write_u16(b, off, get_tag_type(tag)),
                                    off + 2, AsU16(Len(tag.val))),
                          off + 4, tag.val))

(***************************************************************************)
(* header.rs: construction                                                 *)
(***************************************************************************)
\* Header::set_len
set_len(b, new_length) == write_u16(b, 4, new_length)

\* Header::create_packet
create_packet(b, c, sid) ==
    IF ~IsOk(ensure_minimal_buffer_length(b))
    THEN Written(ensure_minimal_buffer_length(b), b)
    ELSE Written(Ok(0),
           write_u16(write_u16(WriteBytes(b, 0, <<17, c>>), 2, sid), 4, 0))

\* Header::create_padi .. create_padt; session_id is a NonZeroU16
create_padi(b) == create_packet(b, PADI, 0)
create_pado(b) == create_packet(b, PADO, 0)
create_padr(b) == create_packet(b, PADR, 0)
create_pads(b, sid) == create_packet(b, PADS, sid)
create_padt(b, sid) == create_packet(b, PADT, sid)

\* Header::add_tag
add_tag(b, tag, wrap) ==
    LET packet_length == len(b, wrap)
        w == Tag_write(tag, b, packet_length.a)
    IN  IF ~IsOk(packet_length) THEN Written(packet_length, b)
        ELSE IF packet_length.a > b.len
        THEN Written(Panic("slice index out of range"), b)
        ELSE IF ~IsOk(w.res) THEN w
        ELSE Written(Ok(0), set_len(w.buf, AsU16(packet_length.a - 6 + w.res.a)))

\* Header::add_end_tag
add_end_tag(b, wrap) == add_tag(b, EndOfList, wrap)

\* Header::clear_payload
clear_payload(b) == set_len(b, 0)

\* Header::set_code
set_code(b, c) == WriteBytes(b, 1, <<c>>)

\* Iterator::last over the TagIterator of b[pos .. end): the last tag, or
\* NoView for an empty payload, or the panic of next()
RECURSIVE IterLast(_, _, _, _)
IterLast(b, pos, end, seen) ==
    LET d == Tag_from_buffer(b, pos, end)
    IN  IF pos = end THEN Decoded(Ok(0), seen, pos)
        ELSE IF ~IsOk(d.res) THEN Decoded(Panic(d.res.err), NoView, pos)
        ELSE IterLast(b, d.rest, end, d.tag)

\* Header::clear_eol
clear_eol(b, wrap) ==
    LET l == len(b, wrap)
        lastTag == IterLast(b, 6, l.a, NoView)
    IN  IF ~IsOk(l) THEN Written(l, b)
        ELSE IF l.a < 6 \/ l.a > b.len
        THEN Written(Panic("slice index out of range"), b)
        ELSE IF ~IsOk(lastTag.res) THEN Written(lastTag.res, b)
        ELSE IF lastTag.tag.kind = "EndOfList"
        THEN Written(Ok(0), set_len(b, AsU16(AsU16(l.a) - 10)))
        ELSE Written(Ok(0), b)

(***************************************************************************)
(* The calls.  last records the call and its result, pre the buffer before *)
(* it.                                                                     *)
(***************************************************************************)
Call(op, arg, tag, res) == [op |-> op, arg |-> arg, tag |-> tag, res |-> res]

NoIter == [on |-> FALSE, pos |-> 0, end |-> 0]

\* Header::from_buffer_with_code(buf, expected_code); None is NoCode
ParseBuffer(expected_code) ==
    LET r == from_buffer_with_code(buf, expected_code)
    IN  /\ last' = Call("from_buffer", expected_code, NoTag, r)
        /\ hdr' = IF IsOk(r) THEN "parsed" ELSE "none"
        /\ pre' = buf
        /\ iter' = NoIter
        /\ yielded' = <<>>
        /\ UNCHANGED <<buf, appended, calls, aux>>

\* Header::tag_iter: TagIterator { payload: &self.0[6..self.len()] }
TagIter ==
    /\ hdr # "none"
    /\ \E wrap \in Builds(buf) :
         LET l == len(buf, wrap)
             r == IF ~IsOk(l) THEN l
                  ELSE IF l.a < 6 \/ l.a > buf.len
                  THEN Panic("slice index out of range")
                  ELSE Ok(0)
         IN  /\ last' = Call("tag_iter", 0, NoTag, r)
             /\ iter' = IF IsOk(r) THEN [on |-> TRUE, pos |-> 6, end |-> l.a] ELSE NoIter
    /\ pre' = buf
    /\ yielded' = <<>>
    /\ UNCHANGED <<buf, hdr, appended, calls, aux>>

\* TagIterator::next: None on an empty slice, else Tag::from_buffer(..).unwrap()
TagIterNext ==
    /\ iter.on
    /\ LET d == Tag_from_buffer(buf, iter.pos, iter.end)
       IN  IF iter.pos = iter.end
           THEN /\ last' = Call("next", 0, NoTag, Ok(0))
                /\ iter' = NoIter
                /\ UNCHANGED yielded
           ELSE IF IsOk(d.res)
           THEN /\ last' = Call("next", 1, NoTag, Ok(0))
                /\ iter' = [iter EXCEPT !.pos = d.rest]
                /\ yielded' = Append(yielded, d.tag)
           ELSE /\ last' = Call("next", 1, NoTag, Panic(d.res.err))
                /\ iter' = NoIter
                /\ UNCHANGED yielded
    /\ pre' = buf
    /\ UNCHANGED <<buf, hdr, appended, calls, aux>>

(***************************************************************************)
(* Received buffers: a 6-byte header followed by tag-sized pieces, in a    *)
(* buffer that may be shorter or longer than the frame it declares.        *)
(***************************************************************************)
MaxPieces == 2

Pieces ==
    { <<1, 1, 0, 0>>,               \* Service-Name ""
      <<1, 1, 0, 1, 97>>,           \* Service-Name "a"
      <<1, 2, 0, 0>>,               \* AC-Name ""
      <<1, 3, 0, 0>>,               \* Host-Uniq ""
      <<1, 4, 0, 1, 99>>,           \* AC-Cookie "c"
      <<1, 5, 0, 0>>,               \* Vendor-Specific ""
      <<1, 16, 0, 0>>,              \* Relay-Session-ID ""
      <<1, 32, 0, 2, 5, 220>>,      \* PPP-Max-Payload 1500
      <<1, 32, 0, 0>>,              \* PPP-Max-Payload, length 0
      <<1, 6, 0, 4, 0, 1, 0, 2>>,   \* Credits (1, 2)
      <<1, 6, 0, 0>>,               \* Credits, length 0
      <<1, 8, 0, 2, 0, 7>>,         \* Sequence-Number 7
      <<1, 8, 0, 0>>,               \* Sequence-Number, length 0
      <<1, 9, 0, 1, 3>>,            \* Credit-Scale-Factor, length 1
      <<1, 7, 0, 0>>,               \* Metrics ""
      <<2, 3, 0, 0>>,               \* Generic-Error ""
      <<3, 0, 0, 0>>,               \* unknown type 0x0300
      <<0, 0, 0, 0>>,               \* End-Of-List
      <<0, 0, 0, 1, 0>>,            \* End-Of-List, length 1
      <<0>>,                        \* one zero byte
      <<9>>,                        \* one non-zero byte
      <<1, 2, 0, 9>> }              \* AC-Name claiming 9 bytes

PieceSeqs(n) == UNION {[1 .. k -> Pieces] : k \in 0 .. n}

RECURSIVE Flatten(_)
Flatten(ss) == IF ss = <<>> THEN <<>> ELSE Head(ss) \o Flatten(Tail(ss))

\* the buffer of n bytes that starts with the given header and payload
Frame(byte0, c, sid, length, payload, n) ==
    LET bytes == <<byte0, c>> \o BE16(sid) \o BE16(length) \o payload
    IN  MkBuffer(n, SubSeq(bytes, 1, Min(n, Len(bytes))))

BigBuffer == U16

\* every header field varies, over payloads of at most one piece
HeaderCases ==
    { Frame(byte0, c, sid, length, Flatten(ps), n) :
        byte0 \in {17, 16, 31, 33, 0}, c \in Codes \cup {0, 255}, sid \in {0, 1},
        length \in {0, 4, 5, 512, U16 - 1},
        ps \in PieceSeqs(1), n \in {10, 11, BigBuffer} }

\* every payload varies, under a valid header whose length field is the
\* payload's length, or one less (the last byte is then outside the frame)
PayloadCases ==
    { Frame(17, c, 0, Len(Flatten(ps)) - cut, Flatten(ps), 6 + Len(Flatten(ps))) :
        c \in {PADI, PADS}, cut \in {0, 1},
        ps \in PieceSeqs(MaxPieces) \ {<<>>} }

ShortCases ==
    { Frame(17, PADI, 0, 4, <<1, 1, 0, 0>>, n) : n \in 0 .. 5 }

\* no PADO, no Tr101Information and no Ethernet slice are held
NoAux ==
    /\ pado = MkBuffer(0, <<>>)
    /\ tr101 = <<>>
    /\ eth = MkBuffer(0, <<>>)

InitParse ==
    /\ buf \in HeaderCases \cup PayloadCases \cup ShortCases
    /\ hdr = "none"
    /\ last = Call("", 0, NoTag, Ok(0))
    /\ pre = buf
    /\ iter = NoIter
    /\ yielded = <<>>
    /\ appended = <<>>
    /\ calls = 0
    /\ NoAux

ExpectedCodes == Codes \cup {NoCode}

NextParse ==
    \/ \E e \in ExpectedCodes : ParseBuffer(e)
    \/ TagIter
    \/ TagIterNext

SpecParse == InitParse /\ [][NextParse]_vars

(***************************************************************************)
(* What the specification says of a payload, read off the bytes: the tags  *)
(* met walking b[pos .. end) left to right, up to and including the first  *)
(* End-Of-List tag or the first tag that overruns the payload.             *)
(***************************************************************************)
Met(t, l, at) == [t |-> t, l |-> l, at |-> at]

RECURSIVE TagsMet(_, _, _)
TagsMet(b, pos, end) ==
    LET t == read_u16(b, pos)
        l == read_u16(b, pos + 2)
    IN  IF end - pos < 4 THEN <<>>
        ELSE IF t = 0 \/ l + 4 > end - pos THEN <<Met(t, l, pos)>>
        ELSE <<Met(t, l, pos)>> \o TagsMet(b, pos + 4 + l, end)

\* the offset at which the walk stops
WalkEnd(ms, start) ==
    IF ms = <<>> THEN start ELSE ms[Len(ms)].at + 4 + ms[Len(ms)].l

\* section 3.3, duplication rule
AtMostOnce == {257, 258, 259, 260, 272, 288}

Repeats(ms, i) == ms[i].t \in AtMostOnce /\ \E j \in 1 .. (i - 1) : ms[j].t = ms[i].t

NoRepeat(ms) == \A i \in 1 .. Len(ms) : ~Repeats(ms, i)

\* byte 0 is 0x11, the code is known, and the declared frame is in the buffer
ValidHeader(b) ==
    /\ b.len >= 6
    /\ ByteAt(b, 0) = 17
    /\ ByteAt(b, 1) \in {9, 7, 25, 101, 167}
    /\ 6 + read_u16(b, 4) <= b.len

PayloadEnd(b) == 6 + read_u16(b, 4)

Payload(b) == TagsMet(b, 6, PayloadEnd(b))

\* the payload is complete tags up to its end, End-Of-List (if any) being
\* its last four bytes, and no at-most-once tag repeats
WellFormed(b) ==
    /\ WalkEnd(Payload(b), 6) = PayloadEnd(b)
    /\ NoRepeat(Payload(b))

HasServiceName(b) == \E i \in 1 .. Len(Payload(b)) : Payload(b)[i].t = 257

Parsed == last.op = "from_buffer"

\* a parse whose expected code, if any, is the frame's code
ParsedAsIs == Parsed /\ last.arg \in {NoCode, ByteAt(buf, 1)}

(***************************************************************************)
(* C1.  A frame with a valid header and a well-formed payload that holds   *)
(* no Service-Name tag is rejected with MissingServiceName: when the       *)
(* length is 0, when the payload ends with End-Of-List, and when it is     *)
(* complete tags ending exactly at the declared length.                    *)
(***************************************************************************)
C1_MissingServiceName ==
    (ParsedAsIs /\ ValidHeader(buf) /\ WellFormed(buf) /\ ~HasServiceName(buf))
        => last.res = Err("MissingServiceName", 0, 0)

(***************************************************************************)
(* C2.  Once from_buffer has accepted a buffer, creating its tag iterator  *)
(* and stepping it to exhaustion never aborts.                             *)
(***************************************************************************)
C2_IterationInfallible ==
    (hdr = "parsed" /\ last.op \in {"tag_iter", "next"}) => last.res.kind # "Panic"

(***************************************************************************)
(* C4.  Under a valid header, when the walk meets an at-most-once tag for  *)
(* the second time the parse fails with DuplicateTag of that type, and     *)
(* DuplicateTag is reported in no other case.                              *)
(***************************************************************************)
FirstRepeat(ms) ==
    IF NoRepeat(ms) THEN 0
    ELSE CHOOSE i \in 1 .. Len(ms) : Repeats(ms, i) /\ \A j \in 1 .. (i - 1) : ~Repeats(ms, j)

C4_DuplicateTag ==
    (ParsedAsIs /\ ValidHeader(buf)) =>
        LET ms == Payload(buf)
        IN  IF NoRepeat(ms)
            THEN last.res.err # "DuplicateTag"
            ELSE last.res = Err("DuplicateTag", ms[FirstRepeat(ms)].t, 0)

C4_Witness ==
    /\ ParsedAsIs /\ ValidHeader(buf)
    /\ last.res = Err("DuplicateTag", 260, 0)

(***************************************************************************)
(* C5.  Under a valid header, when the walk reaches an End-Of-List tag     *)
(* the parse succeeds only if that tag has length 0 and is the last four   *)
(* bytes of the payload; otherwise it fails with DataBehindEolTag.         *)
(***************************************************************************)
ReachesEol(b) ==
    /\ Payload(b) # <<>>
    /\ Payload(b)[Len(Payload(b))].t = 0
    /\ NoRepeat(Payload(b))

EolIsLast(b) ==
    /\ Payload(b)[Len(Payload(b))].l = 0
    /\ Payload(b)[Len(Payload(b))].at + 4 = PayloadEnd(b)

C5_EolTerminal ==
    (ParsedAsIs /\ ValidHeader(buf) /\ ReachesEol(buf)) =>
        /\ IsOk(last.res) => EolIsLast(buf)
        /\ ~EolIsLast(buf) => last.res = Err("DataBehindEolTag", 0, 0)

\* a zero byte follows a zero-length End-Of-List inside the payload
C5_Witness ==
    /\ ParsedAsIs /\ ValidHeader(buf) /\ ReachesEol(buf)
    /\ Payload(buf)[Len(Payload(buf))].l = 0
    /\ Payload(buf)[Len(Payload(buf))].at + 5 = PayloadEnd(buf)
    /\ ByteAt(buf, PayloadEnd(buf) - 1) = 0
    /\ last.res = Err("DataBehindEolTag", 0, 0)

(***************************************************************************)
(* C6.  With byte 0 = 0x11 and a known code, a length field L with         *)
(* 6 + L above the buffer's length is rejected with                        *)
(* PayloadLengthOutOfBound carrying the buffer's length and L, and that    *)
(* error is returned in no other case.                                     *)
(***************************************************************************)
C6_PayloadLengthOutOfBound ==
    (ParsedAsIs /\ buf.len >= 6 /\ ByteAt(buf, 0) = 17
        /\ ByteAt(buf, 1) \in {9, 7, 25, 101, 167}) =>
        IF 6 + read_u16(buf, 4) > buf.len
        THEN last.res = Err("PayloadLengthOutOfBound", buf.len, read_u16(buf, 4))
        ELSE last.res.err # "PayloadLengthOutOfBound"

(***************************************************************************)
(* C7.  A buffer of 6 bytes or more whose byte 0 is not 0x11 is rejected   *)
(* with InvalidVersion(byte0 >> 4) when that nibble is not 1, and with     *)
(* InvalidType(byte0 & 0x0F) otherwise, whatever the other bytes are.      *)
(***************************************************************************)
C7_VersionAndType ==
    (Parsed /\ buf.len >= 6 /\ ByteAt(buf, 0) # 17) =>
        IF ByteAt(buf, 0) \div 16 # 1
        THEN last.res = Err("InvalidPppoeVersion", ByteAt(buf, 0) \div 16, 0)
        ELSE last.res = Err("InvalidPppoeType", ByteAt(buf, 0) % 16, 0)

\* type 0xF under version 1, with an unknown code and a length field out of bounds
C7_Witness ==
    /\ Parsed /\ buf.len >= 6
    /\ ByteAt(buf, 0) = 31 /\ ByteAt(buf, 1) = 255 /\ 6 + read_u16(buf, 4) > buf.len
    /\ last.res = Err("InvalidPppoeType", 15, 0)

(***************************************************************************)
(* C9.  With byte 0 = 0x11 a code outside the five discovery codes is      *)
(* rejected with InvalidCode(code); and a frame that from_buffer accepts   *)
(* is accepted under an expected code exactly when that is its code, and   *)
(* rejected with UnexpectedCode(code) otherwise.                           *)
(***************************************************************************)
C9_CodeValidation ==
    (Parsed /\ buf.len >= 6 /\ ByteAt(buf, 0) = 17) =>
        /\ ByteAt(buf, 1) \notin {9, 7, 25, 101, 167}
              => last.res = Err("InvalidPppoeCode", ByteAt(buf, 1), 0)
        /\ (last.arg # NoCode /\ IsOk(from_buffer(buf))) =>
              /\ IsOk(last.res) <=> ByteAt(buf, 1) = last.arg
              /\ ByteAt(buf, 1) # last.arg
                    => last.res = Err("UnexpectedCode", ByteAt(buf, 1), 0)

\* an accepted PADS frame parsed with padi_from_buffer
C9_Witness ==
    /\ Parsed /\ IsOk(from_buffer(buf))
    /\ ByteAt(buf, 1) = 101 /\ last.arg = 9
    /\ last.res = Err("UnexpectedCode", 101, 0)

(***************************************************************************)
(* Building: the calls on a Header over the caller's buffer                *)
(***************************************************************************)
MaxCalls == 3

\* a call that writes to the buffer
Writing ==
    /\ calls < MaxCalls
    /\ calls' = calls + 1

NoHeader(r) ==
    /\ Writing
    /\ hdr' = IF IsOk(r) THEN "created" ELSE "none"
    /\ iter' = NoIter
    /\ yielded' = <<>>
    /\ appended' = <<>>
    /\ pre' = buf
    /\ UNCHANGED aux

\* Header::create_packet(buf, code, session_id)
CreatePacket(c, sid) ==
    LET w == create_packet(buf, c, sid)
    IN  /\ last' = Call("create_packet", c, NoTag, w.res)
        /\ buf' = w.buf
        /\ NoHeader(w.res)

\* Header::create_padi(buf) .. Header::create_padt(buf, session_id)
CreateFor(c, sid) ==
    LET w == CASE c = PADI -> create_padi(buf)
               [] c = PADO -> create_pado(buf)
               [] c = PADR -> create_padr(buf)
               [] c = PADS -> create_pads(buf, sid)
               [] c = PADT -> create_padt(buf, sid)
    IN  /\ last' = Call("create_for", c, NoTag, w.res)
        /\ buf' = w.buf
        /\ NoHeader(w.res)

\* Header::add_tag(tag)
AddTag(tag) ==
    /\ hdr # "none"
    /\ Writing
    /\ \E wrap \in Builds(buf) :
         LET w == add_tag(buf, tag, wrap)
         IN  /\ last' = Call("add_tag", 0, tag, w.res)
             /\ buf' = w.buf
             /\ appended' = IF IsOk(w.res) THEN Append(appended, tag) ELSE appended
    /\ pre' = buf
    /\ iter' = NoIter
    /\ yielded' = <<>>
    /\ UNCHANGED <<hdr, aux>>

\* Header::add_end_tag()
AddEndTag ==
    /\ hdr # "none"
    /\ Writing
    /\ \E wrap \in Builds(buf) :
         LET w == add_end_tag(buf, wrap)
         IN  /\ last' = Call("add_tag", 0, EndOfList, w.res)
             /\ buf' = w.buf
             /\ appended' = IF IsOk(w.res) THEN Append(appended, EndOfList) ELSE appended
    /\ pre' = buf
    /\ iter' = NoIter
    /\ yielded' = <<>>
    /\ UNCHANGED <<hdr, aux>>

\* Header::clear_payload()
ClearPayload ==
    /\ hdr # "none"
    /\ Writing
    /\ last' = Call("clear_payload", 0, NoTag, Ok(0))
    /\ buf' = clear_payload(buf)
    /\ appended' = <<>>
    /\ pre' = buf
    /\ iter' = NoIter
    /\ yielded' = <<>>
    /\ UNCHANGED <<hdr, aux>>

\* Header::clear_eol()
ClearEol ==
    /\ hdr # "none"
    /\ Writing
    /\ \E wrap \in Builds(buf) :
         LET w == clear_eol(buf, wrap)
         IN  /\ last' = Call("clear_eol", 0, NoTag, w.res)
             /\ buf' = w.buf
             /\ appended' = IF w.buf # buf
                            THEN SubSeq(appended, 1, Len(appended) - 1)
                            ELSE appended
    /\ pre' = buf
    /\ iter' = NoIter
    /\ yielded' = <<>>
    /\ UNCHANGED <<hdr, aux>>

\* Header::set_code(code)
SetCode(c) ==
    /\ hdr # "none"
    /\ Writing
    /\ last' = Call("set_code", c, NoTag, Ok(0))
    /\ buf' = set_code(buf, c)
    /\ pre' = buf
    /\ UNCHANGED <<hdr, iter, yielded, appended, aux>>

(***************************************************************************)
(* The buffers and tags a caller builds with                               *)
(***************************************************************************)
MaxBuffer == 14

BuildLengths == {0, 4, 5, 6, 10, MaxBuffer}

\* what the buffer holds before the caller's first call
Fills == {0, 17}

Filled(n, f) == MkBuffer(n, [i \in 1 .. n |-> f])

SessionIds == {0, 1}

NonZeroSessionIds == {1}

BuildTags ==
    { Tag("ServiceName", 0, 0, 0, <<>>),
      Tag("ServiceName", 0, 0, 0, <<97, 98>>),
      Tag("AcName", 0, 0, 0, <<>>),
      Tag("HostUniq", 0, 0, 0, <<104>>),
      Tag("AcCookie", 0, 0, 0, <<97, 98, 99>>),
      Tag("VendorSpecific", 0, 0, 0, <<>>),
      Tag("RelaySessionId", 0, 0, 0, <<>>),
      Tag("GenericError", 0, 0, 0, <<>>),
      Tag("PppMaxMtu", 0, 1500, 0, <<>>),
      Tag("Credits", 0, 1, 2, <<>>),
      Tag("Metrics", 0, 0, 0, <<>>),
      Tag("SequenceNumber", 0, 7, 0, <<>>),
      Tag("CreditScaleFactor", 0, 3, 0, <<>>),
      Tag("Unknown", 768, 0, 0, <<>>) }

Init ==
    /\ buf \in {Filled(n, f) : n \in BuildLengths, f \in Fills}
    /\ hdr = "none"
    /\ last = Call("", 0, NoTag, Ok(0))
    /\ pre = buf
    /\ iter = NoIter
    /\ yielded = <<>>
    /\ appended = <<>>
    /\ calls = 0
    /\ NoAux

Next ==
    \/ \E c \in Codes, sid \in SessionIds : CreatePacket(c, sid)
    \/ \E c \in Codes, sid \in NonZeroSessionIds : CreateFor(c, sid)
    \/ \E tag \in BuildTags : AddTag(tag)
    \/ AddEndTag
    \/ ClearPayload
    \/ ClearEol
    \/ \E c \in Codes : SetCode(c)
    \/ ParseBuffer(NoCode)
    \/ TagIter
    \/ TagIterNext

Spec == Init /\ [][Next]_vars

(***************************************************************************)
(* What the specification says of the tags a caller appends                *)
(***************************************************************************)
\* section 3.3: the on-wire width of a tag, type and length included
Width(tag) ==
    CASE tag.kind = "PppMaxMtu"         -> 6
      [] tag.kind = "Credits"           -> 8
      [] tag.kind = "SequenceNumber"    -> 6
      [] tag.kind = "CreditScaleFactor" -> 6
      [] OTHER                          -> 4 + Len(tag.val)

\* the bytes of the buffer after the current payload
Free(b) == b.len - (6 + read_u16(b, 4))

OnceKinds ==
    {"ServiceName", "AcName", "HostUniq", "AcCookie", "RelaySessionId", "PppMaxMtu"}

\* Service-Name is there, no at-most-once tag repeats, End-Of-List is last if there
ValidTags(ts) ==
    /\ \E i \in 1 .. Len(ts) : ts[i].kind = "ServiceName"
    /\ \A i, j \in 1 .. Len(ts) : (i < j /\ ts[i].kind = ts[j].kind) => ts[i].kind \notin OnceKinds
    /\ \A i \in 1 .. Len(ts) : ts[i].kind = "EndOfList" => i = Len(ts)

\* the tag a view stands for, its value copied out of the buffer
Owned(b, v) == Tag(v.kind, v.id, v.n1, v.n2, Slice(b, v.off, v.off + v.len))

OwnedAll(b, vs) == [i \in 1 .. Len(vs) |-> Owned(b, vs[i])]

(***************************************************************************)
(* C3.  Round trip: appending a valid sequence of tags that fits the       *)
(* buffer succeeds tag by tag, the bytes built parse, and the iterator of  *)
(* the parsed header yields exactly the appended tags, in order.           *)
(***************************************************************************)
C3_AppendSucceeds ==
    (last.op = "add_tag" /\ Free(pre) >= Width(last.tag)) => IsOk(last.res)

C3_BuiltParses ==
    (last.op = "from_buffer" /\ ValidTags(appended)) => IsOk(last.res)

C3_YieldsAppended ==
    (hdr = "parsed" /\ last.op = "next" /\ last.arg = 0 /\ ValidTags(appended))
        => OwnedAll(buf, yielded) = appended

C3_RoundTrip == C3_AppendSucceeds /\ C3_BuiltParses /\ C3_YieldsAppended

(***************************************************************************)
(* C8.  On a buffer shorter than 6 bytes, parsing a header and creating    *)
(* one (create_packet and the per-code entry points) fail with             *)
(* BufferTooSmall carrying the buffer's length, and the buffer is not      *)
(* written.                                                                *)
(***************************************************************************)
C8_BufferTooSmall ==
    (last.op \in {"from_buffer", "create_packet", "create_for"} /\ pre.len < 6) =>
        /\ last.res = Err("BufferTooSmall", pre.len, 0)
        /\ buf = pre

\* create_pads on 5 bytes that hold 0x11 each
C8_Witness ==
    /\ last.op = "create_for" /\ last.arg = PADS
    /\ pre.len = 5 /\ ByteAt(pre, 0) = 17
    /\ last.res = Err("BufferTooSmall", 5, 0)

(***************************************************************************)
(* C10.  add_tag(x) succeeds when the buffer after the payload can hold    *)
(* x's type, length and value, and the length field then grows by exactly  *)
(* that width; when it cannot, add_tag fails with BufferTooSmallForTag and *)
(* the length field, the code and the session id are unchanged.            *)
(***************************************************************************)
C10_AddTagLength ==
    last.op = "add_tag" =>
        IF Free(pre) >= Width(last.tag)
        THEN /\ IsOk(last.res)
             /\ read_u16(buf, 4) = read_u16(pre, 4) + Width(last.tag)
        ELSE /\ IsErr(last.res) /\ last.res.err = "BufferTooSmallForTag"
             /\ read_u16(buf, 4) = read_u16(pre, 4)
             /\ ByteAt(buf, 1) = ByteAt(pre, 1)
             /\ read_u16(buf, 2) = read_u16(pre, 2)

(***************************************************************************)
(* tags/tr101.rs: the TR-101 sub-TLVs of a Vendor-Specific tag             *)
(***************************************************************************)
BROADBAND_FORUM_VENDOR_ID == 3561

AGENT_CIRCUIT_ID == 1
AGENT_REMOTE_ID  == 2
ACTUAL_DATA_RATE_UP              == 129
ACTUAL_DATA_RATE_DOWN            == 130
MINIMUM_DATA_RATE_UP             == 131
MINIMUM_DATA_RATE_DOWN           == 132
ATTAINABLE_DATA_RATE_UP          == 133
ATTAINABLE_DATA_RATE_DOWN        == 134
MAXIMUM_DATA_RATE_UP             == 135
MAXIMUM_DATA_RATE_DOWN           == 136
MINIMUM_DATA_RATE_UP_LOW_POWER   == 137
MINIMUM_DATA_RATE_DOWN_LOW_POWER == 138
MAXIMUM_INTERLEAVING_DELAY_UP    == 139
ACTUAL_INTERLEAVING_DELAY_UP     == 140
MAXIMUM_INTERLEAVING_DELAY_DOWN  == 141
ACTUAL_INTERLEAVING_DELAY_DOWN   == 142

BUFFER_MIN_SIZE == 104

\* a u32 is the pair of its high and low 16 bits
Wide(n) == <<n \div U16, n % U16>>

MaxU32 == <<U16 - 1, U16 - 1>>

read_u32(b, off) == <<read_u16(b, off), read_u16(b, off + 2)>>

BE32(v) == BE16(v[1]) \o BE16(v[2])

\* the fourteen rate and delay fields of Tr101Information, in the order
\* write() emits them
RateFields ==
    << "act_data_rate_up", "act_data_rate_down", "min_data_rate_up",
       "min_data_rate_down", "att_data_rate_up", "att_data_rate_down",
       "max_data_rate_up", "max_data_rate_down", "min_data_rate_up_lp",
       "min_data_rate_down_lp", "max_interl_delay_up", "act_interl_delay_up",
       "max_interl_delay_down", "act_interl_delay_down" >>

RateNames == {RateFields[i] : i \in 1 .. Len(RateFields)}

\* the sub-TLV type write() gives each field
RateType(i) == ACTUAL_DATA_RATE_UP + i - 1

\* (u8, [u8; 64]): a length and 64 bytes of inline storage
NoId == [n |-> 0, a |-> [i \in 1 .. 64 |-> 0]]

\* Default for Tr101Information
Tr101Default ==
    [circuit_id |-> NoId, remote_id |-> NoId,
     rate |-> [f \in RateNames |-> Wide(0)],
     dsl_type |-> Wide(0),
     access_loop_encapsulation |-> <<0, 0, 0>>]

\* set_circuit_id / set_remote_id on the id stored: the first len bytes are
\* overwritten, the others are kept
SetId(id, tag_type, s) ==
    IF Len(s) > 63
    THEN [res |-> Err("InvalidTr101TagLength", tag_type, Min(Len(s), U16 - 1)), id |-> id]
    ELSE [res |-> Ok(0),
          id  |-> [n |-> AsU8(Len(s)),
                   a |-> [i \in 1 .. 64 |-> IF i <= Len(s) THEN s[i] ELSE id.a[i]]]]

\* Tr101Information::with_both_ids: the remote id is set first
with_both_ids(circuit_id, remote_id) ==
    LET r == SetId(NoId, AGENT_REMOTE_ID, remote_id)
        c == SetId(NoId, AGENT_CIRCUIT_ID, circuit_id)
    IN  IF ~IsOk(r.res) THEN r.res
        ELSE IF ~IsOk(c.res) THEN c.res
        ELSE Ok([Tr101Default EXCEPT !.circuit_id = c.id, !.remote_id = r.id])

\* Tr101Information::circuit_id() and remote_id(): the stored bytes from
\* offset len to the end of the storage
IdFrom(id) == SubSeq(id.a, id.n + 1, 64)

Tr101_circuit_id(t) == IdFrom(t.circuit_id)

Tr101_remote_id(t) == IdFrom(t.remote_id)

\* Tr101Information::len
Tr101_len(t) == BUFFER_MIN_SIZE + t.circuit_id.n + t.remote_id.n

\* the sub-TLV of an id, left out when the id is empty
IdTlv(tag_type, id) ==
    IF id.n = 0 THEN <<>> ELSE <<tag_type, id.n>> \o SubSeq(id.a, 1, id.n)

RECURSIVE RateTlvs(_, _)
RateTlvs(t, i) ==
    IF i > Len(RateFields) THEN <<>>
    ELSE <<RateType(i), 4>> \o BE32(t.rate[RateFields[i]]) \o RateTlvs(t, i + 1)

\* the bytes write() stores, from the vendor id on
Tr101Bytes(t) ==
    BE32(Wide(BROADBAND_FORUM_VENDOR_ID))
        \o IdTlv(AGENT_CIRCUIT_ID, t.circuit_id)
        \o IdTlv(AGENT_REMOTE_ID, t.remote_id)
        \o <<144, 3>> \o t.access_loop_encapsulation
        \o RateTlvs(t, 1)

\* Tr101Information::write into the slice b[off ..]: the size it returns
\* is len(), which is more than the bytes it stores
Tr101_write(t, b, off) ==
    IF b.len - off < Tr101_len(t)
    THEN Written(Err("BufferTooSmall", Tr101_len(t), 0), b)
    ELSE Written(Ok(Tr101_len(t)), WriteBytes(b, off, Tr101Bytes(t)))

\* Tr101TagIterator::next, the match on tag_type: the Tr101Tag variant built
\* for each rate and delay type
Tr101Variant(tag_type) ==
    CASE tag_type = AGENT_CIRCUIT_ID                 -> "CircuitId"
      [] tag_type = AGENT_REMOTE_ID                  -> "RemoteId"
      [] tag_type = ACTUAL_DATA_RATE_UP              -> "ActDataRateUp"
      [] tag_type = ACTUAL_DATA_RATE_DOWN            -> "ActDataRateDown"
      [] tag_type = MINIMUM_DATA_RATE_UP             -> "MinDataRateUp"
      [] tag_type = MINIMUM_DATA_RATE_DOWN           -> "MinDataRateDown"
      [] tag_type = ATTAINABLE_DATA_RATE_UP          -> "AttDataRateUp"
      [] tag_type = ATTAINABLE_DATA_RATE_DOWN        -> "AttDataRateDown"
      [] tag_type = MAXIMUM_DATA_RATE_UP             -> "MaxDataRateUp"
      [] tag_type = MAXIMUM_DATA_RATE_DOWN           -> "MaxDataRateDown"
      [] tag_type = MINIMUM_DATA_RATE_UP_LOW_POWER   -> "MinDataRateUp"
      [] tag_type = MINIMUM_DATA_RATE_DOWN_LOW_POWER -> "MinDataRateDown"
      [] tag_type = MAXIMUM_INTERLEAVING_DELAY_UP    -> "MaxDataRateUp"
      [] tag_type = ACTUAL_INTERLEAVING_DELAY_UP     -> "ActDataRateDown"
      [] tag_type = MAXIMUM_INTERLEAVING_DELAY_DOWN  -> "MaxDataRateUp"
      [] tag_type = ACTUAL_INTERLEAVING_DELAY_DOWN   -> "ActDataRateDown"
      [] OTHER                                       -> "Unknown"

\* TryFrom<Tag>, the match on the Tr101Tag: the field each variant is stored in
Tr101Field(variant) ==
    CASE variant = "ActDataRateUp"      -> "act_data_rate_up"
      [] variant = "ActDataRateDown"    -> "act_data_rate_down"
      [] variant = "MinDataRateUp"      -> "min_data_rate_up"
      [] variant = "MinDataRateDown"    -> "min_data_rate_down"
      [] variant = "AttDataRateUp"      -> "att_data_rate_up"
      [] variant = "AttDataRateDown"    -> "att_data_rate_down"
      [] variant = "MaxDataRateUp"      -> "max_data_rate_up"
      [] variant = "MaxDataRateDown"    -> "max_data_rate_down"
      [] variant = "MinDataRateUpLp"    -> "min_data_rate_up_lp"
      [] variant = "MinDataRateDownLp"  -> "min_data_rate_down_lp"
      [] variant = "MaxInterlDelayUp"   -> "max_interl_delay_up"
      [] variant = "ActInterlDelayUp"   -> "act_interl_delay_down"
      [] variant = "MaxInterlDelayDown" -> "max_interl_delay_up"
      [] variant = "ActInterlDelayDown" -> "act_interl_delay_down"

\* an item of the Tr101TagIterator: None, or Some(Ok(tag)) with the tag's
\* value at b[off .. off+len), or Some(Err(..)), or the panic of next()
Tr101Item(r, some, tag_type, off, length, rest) ==
    [res |-> r, some |-> some, tag_type |-> tag_type, off |-> off,
     len |-> length, rest |-> rest]

\* Tr101TagIterator::next on the slice b[pos .. end)
Tr101_next(b, pos, end) ==
    LET remaining  == end - pos
        tag_type   == ByteAt(b, pos)
        tag_length == ByteAt(b, pos + 1) + 2
    IN  IF remaining = 0 THEN Tr101Item(Ok(0), FALSE, 0, 0, 0, pos)
        ELSE IF remaining = 1
        THEN Tr101Item(Panic("index out of bounds"), TRUE, 0, 0, 0, pos)
        ELSE IF tag_length > remaining
        THEN Tr101Item(Err("Tr101LengthOutOfBound", 0, AsU16(tag_length)),
                       TRUE, tag_type, 0, 0, end)
        ELSE IF tag_type \in {AGENT_CIRCUIT_ID, AGENT_REMOTE_ID} /\ tag_length > 65
        THEN Tr101Item(Err("InvalidTr101TagLength", tag_type, AsU16(tag_length)),
                       TRUE, tag_type, 0, 0, pos)
        ELSE IF tag_type \in ACTUAL_DATA_RATE_UP .. ACTUAL_INTERLEAVING_DELAY_DOWN
                /\ tag_length # 6
        THEN Tr101Item(Err("InvalidTr101TagLength", tag_type, AsU16(tag_length)),
                       TRUE, tag_type, 0, 0, pos)
        ELSE Tr101Item(Ok(0), TRUE, tag_type, pos + 2, tag_length - 2, pos + tag_length)

\* TryFrom<Tag>: one sub-TLV stored into info
Tr101Store(info, b, item) ==
    LET variant == Tr101Variant(item.tag_type)
        value   == Slice(b, item.off, item.off + item.len)
        stored(id) == [n |-> AsU8(item.len),
                       a |-> [i \in 1 .. 64 |-> IF i <= item.len THEN value[i] ELSE id.a[i]]]
    IN  CASE variant = "CircuitId" -> [info EXCEPT !.circuit_id = stored(info.circuit_id)]
          [] variant = "RemoteId"  -> [info EXCEPT !.remote_id = stored(info.remote_id)]
          [] variant = "Unknown"   -> info
          [] OTHER -> [info EXCEPT !.rate[Tr101Field(variant)] = read_u32(b, item.off)]

\* TryFrom<Tag>: the loop over the Tr101TagIterator
RECURSIVE Tr101Loop(_, _, _, _)
Tr101Loop(b, pos, end, info) ==
    LET item == Tr101_next(b, pos, end)
    IN  IF ~IsOk(item.res) THEN item.res
        ELSE IF ~item.some THEN Ok(info)
        ELSE Tr101Loop(b, item.rest, end, Tr101Store(info, b, item))

\* TryFrom<Tag> for Tr101Information: the iterator is given the whole value,
\* vendor id included
Tr101_try_from(tag) ==
    LET b == MkBuffer(Len(tag.val), tag.val)
    IN  IF tag.kind # "VendorSpecific" THEN Err("TagIsNotVendorSpecific", 0, 0)
        ELSE IF b.len < 4 THEN Err("IncompleteTag", AsU8(b.len), 0)
        ELSE IF read_u32(b, 0) # Wide(BROADBAND_FORUM_VENDOR_ID)
        THEN Err("InvalidTr101VendorId", read_u32(b, 0), 0)
        ELSE Tr101Loop(b, 0, b.len, Tr101Default)

(***************************************************************************)
(* The calls on a Tr101Information                                         *)
(***************************************************************************)
\* what the calls on a Tr101Information leave alone
HeaderState == <<hdr, iter, yielded, appended, pado, eth>>

\* Tr101Information::with_both_ids(circuit_id, remote_id)
WithBothIds(circuit_id, remote_id) ==
    LET r == with_both_ids(circuit_id, remote_id)
    IN  /\ tr101 = <<>>
        /\ Writing
        /\ last' = Call("with_both_ids", 0, NoTag, IF IsOk(r) THEN Ok(0) ELSE r)
        /\ tr101' = IF IsOk(r) THEN r.a ELSE <<>>
        /\ pre' = buf
        /\ UNCHANGED <<buf, HeaderState>>

\* an assignment to one of the public rate and delay fields
SetRate(field, v) ==
    /\ tr101 # <<>>
    /\ Writing
    /\ last' = Call("set_rate", v, NoTag, Ok(0))
    /\ tr101' = [tr101 EXCEPT !.rate[field] = v]
    /\ pre' = buf
    /\ UNCHANGED <<buf, HeaderState>>

\* Tr101Information::write(buf)
Tr101Write ==
    LET w == Tr101_write(tr101, buf, 0)
    IN  /\ tr101 # <<>>
        /\ Writing
        /\ last' = Call("tr101_write", 0, NoTag, w.res)
        /\ buf' = w.buf
        /\ pre' = buf
        /\ UNCHANGED <<tr101, HeaderState>>

\* Tr101Information::try_from(Tag::VendorSpecific(&buf[..n])), n being the
\* size the write has returned
Tr101TryFromWritten ==
    /\ last.op = "tr101_write" /\ IsOk(last.res)
    /\ last' = Call("tr101_try_from", last.res.a, NoTag,
                    Tr101_try_from(Tag("VendorSpecific", 0, 0, 0,
                                       Slice(buf, 0, last.res.a))))
    /\ pre' = buf
    /\ UNCHANGED <<buf, tr101, calls, HeaderState>>

\* the ids a caller sets: none, a word, the longest allowed, one byte more
Repeat(byte, n) == [i \in 1 .. n |-> byte]

CircuitIds == {<<>>, <<99, 105, 114, 99, 117, 105, 116>>, Repeat(99, 63), Repeat(99, 64)}

RemoteIds == {<<>>, <<114, 101, 109, 111, 116, 101>>, Repeat(114, 63), Repeat(114, 64)}

RateValues == {Wide(1000000), MaxU32}

\* the buffers written into: too short, exact, and with room left
Tr101Lengths == {0, 103, 104, 117, 230, 300}

InitTr101 ==
    /\ buf \in {Filled(n, f) : n \in Tr101Lengths, f \in Fills}
    /\ hdr = "none"
    /\ last = Call("", 0, NoTag, Ok(0))
    /\ pre = buf
    /\ iter = NoIter
    /\ yielded = <<>>
    /\ appended = <<>>
    /\ calls = 0
    /\ NoAux

NextTr101 ==
    \/ \E c \in CircuitIds, r \in RemoteIds : WithBothIds(c, r)
    \/ \E f \in RateNames, v \in RateValues : SetRate(f, v)
    \/ Tr101Write
    \/ Tr101TryFromWritten

SpecTr101 == InitTr101 /\ [][NextTr101]_vars

(***************************************************************************)
(* C11.  TR-101 round trip: when write() has stored a Tr101Information     *)
(* into a buffer, decoding the written bytes as a Vendor-Specific tag      *)
(* succeeds, and circuit_id(), remote_id() and the fourteen rate and delay *)
(* fields of the result equal the original's.                              *)
(***************************************************************************)
C11_Tr101RoundTrip ==
    last.op = "tr101_try_from" =>
        /\ IsOk(last.res)
        /\ Tr101_circuit_id(last.res.a) = Tr101_circuit_id(tr101)
        /\ Tr101_remote_id(last.res.a) = Tr101_remote_id(tr101)
        /\ last.res.a.rate = tr101.rate

(***************************************************************************)
(* header.rs: create_padr_from_pado.  An Option<&[u8]> is <<>> for None    *)
(* and <<v>> for Some(v).                                                  *)
(***************************************************************************)
None == <<>>

Some(v) == <<v>>

\* the arm Tag::RelaySessionId(_) | Tag::AcCookie(_) without the cookie
CopiedKinds_NoCookie == {"RelaySessionId"}

\* the arm Tag::RelaySessionId(_) | Tag::AcCookie(_)
CopiedKinds == {"RelaySessionId", "AcCookie"}

\* the loop over pado.tag_iter(), the iterator at p[pos .. end), padr over b
RECURSIVE PadrLoop(_, _, _, _, _, _, _, _, _)
PadrLoop(b, p, pos, end, has_service_name, has_system_name, expected_service_name, expected_ac_name, wrap) ==
    LET d     == Tag_from_buffer(p, pos, end)
        tag   == Owned(p, d.tag)
        added == add_tag(b, tag, wrap)
    IN  IF pos = end
        THEN IF ~has_service_name THEN Written(Err("MissingServiceName", 0, 0), b)
             ELSE IF ~has_system_name THEN Written(Err("MissingAcName", 0, 0), b)
             ELSE Written(Ok(0), b)
        ELSE IF ~IsOk(d.res) THEN Written(Panic(d.res.err), b)
        ELSE IF tag.kind = "ServiceName"
        THEN IF expected_service_name # None /\ tag.val # expected_service_name[1]
             THEN Written(Err("ServiceNameMismatch", 0, 0), b)
             ELSE IF ~IsOk(added.res) THEN added
             ELSE PadrLoop(added.buf, p, d.rest, end, TRUE, has_system_name,
                           expected_service_name, expected_ac_name, wrap)
        ELSE IF tag.kind = "AcName"
        THEN IF expected_ac_name # None /\ tag.val # expected_ac_name[1]
             THEN Written(Err("AcNameMismatch", 0, 0), b)
             ELSE PadrLoop(b, p, d.rest, end, has_service_name, TRUE,
                           expected_service_name, expected_ac_name, wrap)
        ELSE IF tag.kind \in CopiedKinds
        THEN IF ~IsOk(added.res) THEN added
             ELSE PadrLoop(added.buf, p, d.rest, end, has_service_name, has_system_name,
                           expected_service_name, expected_ac_name, wrap)
        ELSE PadrLoop(b, p, d.rest, end, has_service_name, has_system_name,
                      expected_service_name, expected_ac_name, wrap)

\* Header::create_padr_from_pado(b, pado = p, ..)
create_padr_from_pado(b, p, expected_service_name, expected_ac_name, wrap) ==
    LET padr == create_padr(b)
        l    == len(p, wrap)
    IN  IF ~IsOk(padr.res) THEN padr
        ELSE IF ~IsOk(l) THEN Written(l, padr.buf)
        ELSE IF l.a < 6 \/ l.a > p.len
        THEN Written(Panic("slice index out of range"), padr.buf)
        ELSE PadrLoop(padr.buf, p, 6, l.a, FALSE, FALSE,
                      expected_service_name, expected_ac_name, wrap)

\* Header::create_padr_from_pado(buf, &pado, expected_service_name, expected_ac_name),
\* the first call on buf
CreatePadrFromPado(expected_service_name, expected_ac_name) ==
    /\ pado.len > 0
    /\ calls = 0
    /\ Writing
    /\ \E wrap \in Builds(pado) :
         LET w == create_padr_from_pado(buf, pado, expected_service_name,
                                        expected_ac_name, wrap)
         IN  /\ last' = Call("create_padr_from_pado",
                             <<expected_service_name, expected_ac_name>>, NoTag, w.res)
             /\ buf' = w.buf
             /\ hdr' = IF IsOk(w.res) THEN "created" ELSE "none"
    /\ pre' = buf
    /\ iter' = NoIter
    /\ yielded' = <<>>
    /\ appended' = <<>>
    /\ UNCHANGED aux

\* the tags of a received PADO
PadoPieces ==
    { <<1, 1, 0, 1, 97>>,    \* Service-Name "a"
      <<1, 2, 0, 1, 110>>,   \* AC-Name "n"
      <<1, 4, 0, 1, 99>>,    \* AC-Cookie "c"
      <<1, 16, 0, 0>>,       \* Relay-Session-ID ""
      <<1, 3, 0, 0>>,        \* Host-Uniq ""
      <<1, 32, 0, 0>>,       \* PPP-Max-Payload, length 0
      <<0, 0, 0, 0>> }       \* End-Of-List

PadoPayloads ==
    {Flatten(ps) : ps \in UNION {[1 .. k -> PadoPieces] : k \in 1 .. (MaxPieces + 2)}}

\* the PADO frames that Header::from_buffer accepts
PadoCases ==
    { b \in {Frame(17, PADO, 0, Len(payload), payload, 6 + Len(payload)) :
               payload \in PadoPayloads} : IsOk(from_buffer(b)) }

\* the names a caller expects
ExpectedServiceNames == {None, Some(<<97>>), Some(<<98>>)}

ExpectedAcNames == {None, Some(<<110>>), Some(<<>>)}

\* the buffers the PADR is built in: too short for a header, for the tags, long enough
PadrLengths == {5, 11, 40}

InitPadr ==
    /\ pado \in PadoCases
    /\ buf \in {Filled(n, 0) : n \in PadrLengths}
    /\ hdr = "none"
    /\ last = Call("", 0, NoTag, Ok(0))
    /\ pre = buf
    /\ iter = NoIter
    /\ yielded = <<>>
    /\ appended = <<>>
    /\ calls = 0
    /\ tr101 = <<>>
    /\ eth = MkBuffer(0, <<>>)

NextPadr ==
    \/ \E sn \in ExpectedServiceNames, ac \in ExpectedAcNames : CreatePadrFromPado(sn, ac)
    \/ ParseBuffer(NoCode)
    \/ TagIter
    \/ TagIterNext

SpecPadr == InitPadr /\ [][NextPadr]_vars

(***************************************************************************)
(* What the specification says of a PADO, read off its bytes               *)
(***************************************************************************)
\* the tags of the PADO's payload with their bytes' places
PadoTags == Payload(pado)

\* the bytes of the tags of the given types, in the PADO's order
RECURSIVE TagBytes(_, _, _)
TagBytes(ms, i, types) ==
    IF i > Len(ms) THEN <<>>
    ELSE (IF ms[i].t \in types THEN Slice(pado, ms[i].at, ms[i].at + 4 + ms[i].l) ELSE <<>>)
            \o TagBytes(ms, i + 1, types)

HasTag(t) == \E i \in 1 .. Len(PadoTags) : PadoTags[i].t = t

\* the value of the PADO's tag of type t
ValueOf(t) ==
    LET i == CHOOSE j \in 1 .. Len(PadoTags) : PadoTags[j].t = t
    IN  Slice(pado, PadoTags[i].at + 4, PadoTags[i].at + 4 + PadoTags[i].l)

PadrMade == last.op = "create_padr_from_pado"

(***************************************************************************)
(* C12.  When create_padr_from_pado succeeds on a parsed PADO, the result  *)
(* has code PADR and session id 0, and its payload is the bytes of the     *)
(* PADO's Service-Name, Relay-Session-ID and AC-Cookie tags in the PADO's  *)
(* order: AC-Name and every other tag of the PADO are left out.            *)
(***************************************************************************)
C12_PadrFromPado ==
    (PadrMade /\ IsOk(last.res)) =>
        /\ ByteAt(buf, 0) = 17
        /\ ByteAt(buf, 1) = 25
        /\ read_u16(buf, 2) = 0
        /\ Slice(buf, 6, 6 + read_u16(buf, 4)) = TagBytes(PadoTags, 1, {257, 272, 260})

\* a PADO with AC-Cookie before Service-Name, and AC-Name and Host-Uniq to leave out
C12_Witness ==
    /\ PadrMade /\ IsOk(last.res)
    /\ HasTag(258) /\ HasTag(259) /\ HasTag(260)
    /\ PadoTags[1].t = 260
    /\ read_u16(buf, 4) = 10

(***************************************************************************)
(* C13.  The errors of create_padr_from_pado, the PADR's buffer being      *)
(* large enough for the PADO's tags: a call that meets one of the four     *)
(* failing cases never returns Ok; a mismatch error is returned only when  *)
(* an expected name was given and the PADO's name differs from it; and a   *)
(* call that meets one failing case only returns that case's error:        *)
(* ServiceNameMismatch, AcNameMismatch, MissingServiceName (the PADO has   *)
(* no Service-Name) or MissingAcName (it has no AC-Name).                  *)
(***************************************************************************)
Mismatch(expected, t) == expected # None /\ HasTag(t) /\ ValueOf(t) # expected[1]

FailingCases ==
    (IF Mismatch(last.arg[1], 257) THEN {"ServiceNameMismatch"} ELSE {})
      \cup (IF Mismatch(last.arg[2], 258) THEN {"AcNameMismatch"} ELSE {})
      \cup (IF ~HasTag(257) THEN {"MissingServiceName"} ELSE {})
      \cup (IF ~HasTag(258) THEN {"MissingAcName"} ELSE {})

C13_PadrErrors ==
    (PadrMade /\ pre.len >= 6 + PayloadLength(pado)) =>
        /\ FailingCases # {} => ~IsOk(last.res)
        /\ last.res.err \in {"ServiceNameMismatch", "AcNameMismatch"}
              => last.res.err \in FailingCases
        /\ \A e \in FailingCases : FailingCases = {e} => last.res = Err(e, 0, 0)

(***************************************************************************)
(* eth.rs and packet.rs: a frame is one buffer split at offset 14 into the *)
(* Ethernet header's slice (eth) and the PPPoE header's slice (buf).       *)
(* packet.rs names pppoe::HeaderBuilder and pppoe::Header::with_buffer,    *)
(* which header.rs does not define: create_padi, len and the tag calls of  *)
(* the builder are those of Header, and its build() and with_buffer are    *)
(* the validation the specification gives them.                            *)
(***************************************************************************)
PPPOE_DISCOVERY == 34915

\* ensure_minimal_buffer_size, on the length of the whole buffer
ensure_minimal_buffer_size(n) ==
    IF n < 20 THEN Err("BufferTooSmall", n, 0) ELSE Ok(0)

\* eth::HeaderBuilder::with_buffer and eth::Header::with_buffer
eth_with_buffer(e) ==
    IF e.len < 14 THEN Err("BufferTooSmall", e.len, 0) ELSE Ok(0)

\* eth::HeaderBuilder::set_src_address
set_src_address(e, addr) == WriteBytes(e, 6, addr)

\* set_dst_address writing where the source address goes
set_dst_address_at_6(e, addr) == WriteBytes(e, 6, addr)

\* eth::HeaderBuilder::set_dst_address
set_dst_address(e, addr) == WriteBytes(e, 0, addr)

\* eth::HeaderBuilder::set_ether_type
set_ether_type(e, ether_type) == write_u16(e, 12, ether_type)

\* eth::HeaderBuilder::build
eth_build(e) == eth_with_buffer(e)

\* pppoe::HeaderBuilder::build: the validator run again over the builder's bytes
HeaderBuilder_build(b) == from_buffer(b)

\* pppoe::Header::with_buffer: parse
Header_with_buffer(b) == from_buffer(b)

Built(r, e, b) == [res |-> r, eth |-> e, buf |-> b]

\* PacketBuilder::new_discovery_packet
new_discovery_packet(e, b, src_mac, dst_mac) ==
    LET ethernet == set_ether_type(set_dst_address(set_src_address(e, src_mac), dst_mac),
                                   PPPOE_DISCOVERY)
        pppoe    == create_padi(b)
    IN  IF ~IsOk(ensure_minimal_buffer_size(e.len + b.len))
        THEN Built(ensure_minimal_buffer_size(e.len + b.len), e, b)
        ELSE IF ~IsOk(eth_with_buffer(e)) THEN Built(eth_with_buffer(e), e, b)
        ELSE Built(pppoe.res, ethernet, pppoe.buf)

\* PacketBuilder::len and Packet::len
Packet_len(b, wrap) ==
    IF IsOk(len(b, wrap)) THEN Ok(14 + len(b, wrap).a) ELSE len(b, wrap)

\* the bytes of the whole buffer at offsets 0 .. n-1
FrameBytes(e, b, n) ==
    [i \in 1 .. n |-> IF i <= e.len THEN ByteAt(e, i - 1) ELSE ByteAt(b, i - 1 - e.len)]

\* PacketBuilder::as_bytes and Packet::as_bytes: slice::from_raw_parts(ptr, len());
\* a length beyond the buffer is undefined behaviour, a fault or a read of
\* whatever follows the buffer (beyond is that byte)
as_bytes(e, b, wrap, beyond) ==
    LET n == Packet_len(b, wrap)
    IN  IF ~IsOk(n) THEN {n}
        ELSE IF n.a <= e.len + b.len THEN {Ok(FrameBytes(e, b, n.a))}
        ELSE {Panic("out of bounds"),
              Ok([i \in 1 .. n.a |-> IF i <= e.len + b.len
                                     THEN FrameBytes(e, b, e.len + b.len)[i]
                                     ELSE beyond])}

\* PacketBuilder::build
PacketBuilder_build(e, b) ==
    IF ~IsOk(eth_build(e)) THEN eth_build(e) ELSE HeaderBuilder_build(b)

\* Packet::with_buffer
Packet_with_buffer(e, b) ==
    IF ~IsOk(ensure_minimal_buffer_size(e.len + b.len))
    THEN ensure_minimal_buffer_size(e.len + b.len)
    ELSE IF ~IsOk(eth_with_buffer(e)) THEN eth_with_buffer(e)
    ELSE Header_with_buffer(b)

(***************************************************************************)
(* The calls on a PacketBuilder and a Packet.  hdr is "created" while a    *)
(* PacketBuilder is held over the buffer and "parsed" while a Packet is.   *)
(***************************************************************************)
\* PacketBuilder::new_discovery_packet(buffer, src_mac, dst_mac)
NewDiscoveryPacket(src_mac, dst_mac) ==
    LET w == new_discovery_packet(eth, buf, src_mac, dst_mac)
    IN  /\ Writing
        /\ last' = Call("new_discovery_packet", <<src_mac, dst_mac>>, NoTag, w.res)
        /\ eth' = w.eth
        /\ buf' = w.buf
        /\ hdr' = IF IsOk(w.res) THEN "created" ELSE "none"
        /\ pre' = buf
        /\ iter' = NoIter
        /\ yielded' = <<>>
        /\ appended' = <<>>
        /\ UNCHANGED <<pado, tr101>>

\* PacketBuilder::pppoe_header().add_tag(tag)
BuilderAddTag(tag) == hdr = "created" /\ AddTag(tag)

\* PacketBuilder::pppoe_header().add_end_tag()
BuilderAddEndTag == hdr = "created" /\ AddEndTag

\* PacketBuilder::pppoe_header().clear_payload()
BuilderClearPayload == hdr = "created" /\ ClearPayload

\* PacketBuilder::pppoe_header().clear_eol()
BuilderClearEol == hdr = "created" /\ ClearEol

\* PacketBuilder::as_bytes() and Packet::as_bytes()
AsBytes ==
    /\ hdr # "none"
    /\ \E wrap \in Builds(buf), beyond \in {0, 255} :
         \E r \in as_bytes(eth, buf, wrap, beyond) :
             last' = Call("as_bytes", 0, NoTag, r)
    /\ pre' = buf
    /\ UNCHANGED <<buf, hdr, iter, yielded, appended, calls, aux>>

\* PacketBuilder::build()
Build ==
    /\ hdr = "created"
    /\ last' = Call("build", 0, NoTag, PacketBuilder_build(eth, buf))
    /\ hdr' = IF IsOk(PacketBuilder_build(eth, buf)) THEN "parsed" ELSE "none"
    /\ pre' = buf
    /\ iter' = NoIter
    /\ yielded' = <<>>
    /\ UNCHANGED <<buf, appended, calls, aux>>

\* Packet::with_buffer(buffer)
PacketWithBuffer ==
    /\ hdr = "none"
    /\ last' = Call("with_buffer", 0, NoTag, Packet_with_buffer(eth, buf))
    /\ hdr' = IF IsOk(Packet_with_buffer(eth, buf)) THEN "parsed" ELSE "none"
    /\ pre' = buf
    /\ iter' = NoIter
    /\ yielded' = <<>>
    /\ UNCHANGED <<buf, appended, calls, aux>>

\* a buffer of n bytes that hold f each, as its two slices
WholeEth(n, f) == Filled(Min(n, 14), f)

WholePppoe(n, f) == Filled(IF n > 14 THEN n - 14 ELSE 0, f)

PacketLengths == {0, 13, 19, 20, 28, 30}

PacketTags ==
    { Tag("ServiceName", 0, 0, 0, <<>>),
      Tag("AcCookie", 0, 0, 0, <<97, 98, 99>>),
      Tag("PppMaxMtu", 0, 1500, 0, <<>>) }

Macs == {Repeat(2, 6), Repeat(255, 6)}

\* the Ethernet header of a received discovery frame
ReceivedEth == MkBuffer(14, Repeat(255, 6) \o Repeat(2, 6) \o BE16(PPPOE_DISCOVERY))

\* the PPPoE part of a received frame: payloads of one piece, and the
\* largest payload
ReceivedPppoe ==
    { Frame(17, PADO, 0, Len(Flatten(ps)), Flatten(ps), 6 + Len(Flatten(ps)) + extra) :
        ps \in PieceSeqs(1), extra \in {0, 2} }
      \cup { Frame(17, PADO, 0, U16 - 1, <<1, 1, 255, 251>>, 6 + U16 - 1) }

InitPacket ==
    /\ \/ \E n \in PacketLengths : eth = WholeEth(n, 0) /\ buf = WholePppoe(n, 0)
       \/ eth = ReceivedEth /\ buf \in ReceivedPppoe
    /\ hdr = "none"
    /\ last = Call("", 0, NoTag, Ok(0))
    /\ pre = buf
    /\ iter = NoIter
    /\ yielded = <<>>
    /\ appended = <<>>
    /\ calls = 0
    /\ pado = MkBuffer(0, <<>>)
    /\ tr101 = <<>>

NextPacket ==
    \/ \E src \in Macs, dst \in Macs : NewDiscoveryPacket(src, dst)
    \/ \E tag \in PacketTags : BuilderAddTag(tag)
    \/ BuilderAddEndTag
    \/ BuilderClearPayload
    \/ BuilderClearEol
    \/ AsBytes
    \/ Build
    \/ PacketWithBuffer

SpecPacket == InitPacket /\ [][NextPacket]_vars

(***************************************************************************)
(* C14.  For a frame builder and for a parsed frame, in every state        *)
(* reached by appending or clearing tags, as_bytes() returns the first     *)
(* 14 + 6 + payload_len bytes of the buffer (Ethernet header, PPPoE        *)
(* header, current payload), and that length is at most the buffer's.      *)
(***************************************************************************)
C14_AsBytes ==
    last.op = "as_bytes" =>
        /\ IsOk(last.res)
        /\ Len(last.res.a) = 14 + 6 + PayloadLength(buf)
        /\ 14 + 6 + PayloadLength(buf) <= eth.len + buf.len
        /\ last.res.a = FrameBytes(eth, buf, 14 + 6 + PayloadLength(buf))

(***************************************************************************)
(* The minimum PADI: new_discovery_packet(buffer, [02; 6], [FF; 6]), then  *)
(* add_tag(ServiceName("")), then add_end_tag(), on a buffer of n bytes.   *)
(***************************************************************************)
EmptyServiceName == Tag("ServiceName", 0, 0, 0, <<>>)

PadiEth == Repeat(255, 6) \o Repeat(2, 6) \o <<136, 99>>

PadiFrame == PadiEth \o <<17, 9, 0, 0, 0, 8>> \o <<1, 1, 0, 0>> \o <<0, 0, 0, 0>>

\* the builder of the scenario is held, after the given number of calls
InPadi(n, k) ==
    /\ eth.len + buf.len = n
    /\ calls = k
    /\ hdr = "created"
    /\ FrameBytes(eth, buf, 14) = PadiEth

\* the first call has been made
PadiCreated(n) ==
    /\ eth.len + buf.len = n
    /\ calls = 1
    /\ last.op = "new_discovery_packet"
    /\ last.arg = <<Repeat(2, 6), Repeat(255, 6)>>

\* the second call has been made
PadiNamed(n) ==
    /\ InPadi(n, 2)
    /\ last.op = "add_tag"
    /\ last.tag = EmptyServiceName
    /\ PayloadLength(pre) = 0

\* the third call has been made
PadiEnded(n) ==
    /\ InPadi(n, 3)
    /\ last.op = "add_tag"
    /\ last.tag = EndOfList
    /\ appended \in {<<EmptyServiceName>>, <<EmptyServiceName, EndOfList>>}

MinimumPadi(n) ==
    /\ PadiCreated(n) =>
          /\ IsOk(last.res)
          /\ FrameBytes(eth, buf, 20) = SubSeq(PadiFrame, 1, 18) \o <<0, 0>>
    /\ PadiNamed(n) =>
          /\ IsOk(last.res)
          /\ FrameBytes(eth, buf, 24) = SubSeq(PadiFrame, 1, 18) \o <<0, 4, 1, 1, 0, 0>>
    /\ PadiEnded(n) =>
          /\ IsOk(last.res)
          /\ FrameBytes(eth, buf, 28) = PadiFrame

(***************************************************************************)
(* C15 as stated.  With a buffer of 20 bytes the three calls of the        *)
(* minimum PADI all succeed and leave the frame FF*6 02*6 88 63            *)
(* 11 09 00 00 00 08 01 01 00 00 00 00 00 00.                              *)
(***************************************************************************)
C15_MinimumPadi20 == MinimumPadi(20)

(***************************************************************************)
(* C15 amended.  With a buffer of 28 bytes the three calls of the minimum  *)
(* PADI all succeed and leave the frame FF*6 02*6 88 63                    *)
(* 11 09 00 00 00 08 01 01 00 00 00 00 00 00.                              *)
(***************************************************************************)
C15_MinimumPadi28 == MinimumPadi(28)

C15_Witness == PadiEnded(28) /\ IsOk(last.res) /\ PayloadLength(buf) = 8

(***************************************************************************)
(* The type of the value an entry point of header.rs returns on success:   *)
(* from_buffer and the create functions all return Result<Header, _>.      *)
(***************************************************************************)
ReturnType(op) ==
    IF op \in {"from_buffer", "create_packet", "create_for"} THEN "Header" ELSE ""

CreationEntryPoints == {"create_packet", "create_for"}

(***************************************************************************)
(* C16.  Only validated bytes are exposed as a finished header view: when  *)
(* a creation entry point returns a value of the type that parse returns,  *)
(* the bytes it is a view of are bytes that parse accepts.                 *)
(***************************************************************************)
C16_OnlyValidated ==
    ( /\ last.op \in CreationEntryPoints
      /\ IsOk(last.res)
      /\ ReturnType(last.op) = ReturnType("from_buffer") )
    => IsOk(from_buffer(buf))

(***************************************************************************)
(* The session id that goes with a code: 0 for PADI, PADO and PADR,        *)
(* non-zero for PADS and PADT.                                             *)
(***************************************************************************)
SessionIdRule(b) ==
    /\ code(b) \in {PADI, PADO, PADR} => session_id(b) = 0
    /\ code(b) \in {PADS, PADT} => session_id(b) # 0

\* the calls that return a header or change the code of one
HeaderEntryPoints == {"create_packet", "create_for", "from_buffer", "set_code"}

(***************************************************************************)
(* C17.  Every header returned by create_packet or create_padi ..          *)
(* create_padt, accepted by parse, or left by set_code has session id 0    *)
(* when its code is PADI, PADO or PADR and a non-zero session id when its  *)
(* code is PADS or PADT.                                                   *)
(***************************************************************************)
C17_SessionIdInvariant ==
    (hdr # "none" /\ last.op \in HeaderEntryPoints /\ IsOk(last.res))
    => SessionIdRule(buf)

(***************************************************************************)
(* The encoding of a tag (section 3.3): type, length, value; the value of  *)
(* PPP-Max-Payload is its number, big-endian.                              *)
(***************************************************************************)
Encoding(tag) ==
    IF tag.kind = "PppMaxMtu" THEN <<1, 32, 0, 2>> \o BE16(tag.n1)
    ELSE BE16(get_tag_type(tag)) \o BE16(Len(tag.val)) \o tag.val

RECURSIVE Encodings(_)
Encodings(tags) ==
    IF tags = <<>> THEN <<>> ELSE Encoding(Head(tags)) \o Encodings(Tail(tags))

OutOfBuffer == last.res.kind = "Panic" /\ last.res.err = "slice index out of range"

BuilderCalls == {"create_packet", "add_tag", "clear_payload", "clear_eol"}

(***************************************************************************)
(* C18.  After any sequence of create_packet, add_tag, add_end_tag,        *)
(* clear_payload and clear_eol calls on one buffer, 6 + payload length is  *)
(* at most the buffer's length, the payload is the concatenation of the    *)
(* encodings of the tags appended and not cleared, and no call has         *)
(* accessed the buffer outside its bounds.                                 *)
(***************************************************************************)
C18_BuilderLength ==
    /\ last.op \in BuilderCalls => ~OutOfBuffer
    /\ hdr = "created" =>
          /\ 6 + PayloadLength(buf) <= buf.len
          /\ Slice(buf, 6, 6 + PayloadLength(buf)) = Encodings(appended)

(***************************************************************************)
(* The same calls on buffers longer than a 16-bit length can state, with   *)
(* a tag whose value nearly fills the 16-bit payload length.               *)
(***************************************************************************)
\* with this value the payload length is 65529 and len() the largest u16
LongValue == Repeat(0, U16 - 11)

LongTag == Tag("HostUniq", 0, 0, 0, LongValue)

LongLengths == {U16 - 1, U16 + 6, U16 + 64}

LongTags ==
    { LongTag,
      Tag("ServiceName", 0, 0, 0, <<>>),
      Tag("AcCookie", 0, 0, 0, <<97, 98, 99>>) }

LongCodes == {PADI, PADS}

InitLong ==
    /\ buf \in {Filled(n, 0) : n \in LongLengths}
    /\ hdr = "none"
    /\ last = Call("", 0, NoTag, Ok(0))
    /\ pre = buf
    /\ iter = NoIter
    /\ yielded = <<>>
    /\ appended = <<>>
    /\ calls = 0
    /\ NoAux

NextLong ==
    \/ \E c \in LongCodes : CreatePacket(c, 0)
    \/ \E tag \in LongTags : AddTag(tag)
    \/ AddEndTag
    \/ ClearPayload
    \/ ClearEol

SpecLong == InitLong /\ [][NextLong]_vars

(***************************************************************************)
(* Tag::write and Tag::from_buffer called on a slice of their own: buf is  *)
(* the slice.                                                              *)
(***************************************************************************)
\* tag.write(&mut buf)
TagWrite(tag) ==
    LET w == Tag_write(tag, buf, 0)
    IN  /\ Writing
        /\ last' = Call("write", 0, tag, w.res)
        /\ buf' = w.buf
        /\ pre' = buf
        /\ UNCHANGED <<hdr, iter, yielded, appended, aux>>

\* Tag::from_buffer(&buf)
TagFromBuffer ==
    LET d == Tag_from_buffer(buf, 0, buf.len)
    IN  /\ last' = Call("tag_from_buffer", d.rest, Owned(buf, d.tag), d.res)
        /\ pre' = buf
        /\ UNCHANGED <<buf, hdr, iter, yielded, appended, calls, aux>>

WriteTags == BuildTags \cup {EndOfList}

TagTypes == FixedTags \cup {TAG_SERVICE_NAME, TAG_METRICS}

TagValue == <<1, 2, 3, 4, 5>>

\* slices that hold one tag of each type with each length field, whole or
\* followed by more bytes or cut short
TagCases ==
    { MkBuffer(n, BE16(t) \o BE16(l) \o SubSeq(TagValue, 1, l)) :
        t \in TagTypes, l \in 0 .. Len(TagValue), n \in {4, 6, 8, 10} }

TagSlices == {Filled(n, f) : n \in {0, 3, 4, 5, 6, 8}, f \in {0, 255}}

InitTag ==
    /\ buf \in TagCases \cup TagSlices
    /\ hdr = "none"
    /\ last = Call("", 0, NoTag, Ok(0))
    /\ pre = buf
    /\ iter = NoIter
    /\ yielded = <<>>
    /\ appended = <<>>
    /\ calls = 0
    /\ NoAux

NextTag ==
    \/ \E tag \in WriteTags : TagWrite(tag)
    \/ TagFromBuffer

SpecTag == InitTag /\ [][NextTag]_vars

(***************************************************************************)
(* The fixed-width numeric tags (section 3.3): their types, the widths of  *)
(* their values, and their encodings.                                      *)
(***************************************************************************)
NumericKinds == {"PppMaxMtu", "Credits", "SequenceNumber", "CreditScaleFactor"}

NumericEncoding(tag) ==
    CASE tag.kind = "PppMaxMtu"         -> <<1, 32, 0, 2>> \o BE16(tag.n1)
      [] tag.kind = "Credits"           -> <<1, 6, 0, 4>> \o BE16(tag.n1) \o BE16(tag.n2)
      [] tag.kind = "SequenceNumber"    -> <<1, 8, 0, 2>> \o BE16(tag.n1)
      [] tag.kind = "CreditScaleFactor" -> <<1, 9, 0, 2>> \o BE16(tag.n1)

ValueWidth(t) ==
    CASE t = 288 -> 2
      [] t = 262 -> 4
      [] t = 264 -> 2
      [] t = 265 -> 2
      [] t = 0   -> 0

FixedWidthTypes == {288, 262, 264, 265, 0}

(***************************************************************************)
(* C19.  Tag::write is total: for every variant and every buffer it        *)
(* returns Ok(bytes written) or BufferTooSmallForTag and never aborts, and *)
(* for a fixed-width numeric variant it writes the type, the fixed length  *)
(* and the value big-endian.                                               *)
(***************************************************************************)
C19_WriteTotal ==
    last.op = "write" =>
        /\ \/ IsOk(last.res)
           \/ IsErr(last.res) /\ last.res.err = "BufferTooSmallForTag"
        /\ (IsOk(last.res) /\ last.tag.kind \in NumericKinds) =>
              /\ last.res.a = Len(NumericEncoding(last.tag))
              /\ Slice(buf, 0, last.res.a) = NumericEncoding(last.tag)

(***************************************************************************)
(* C20.  Tag::from_buffer on an in-bounds fixed-width tag (PPP-Max-Payload,*)
(* Credits, Sequence-Number, Credit-Scale-Factor, End-Of-List): when the   *)
(* length field differs from the width of the value it fails with          *)
(* TagWithInvalidLength carrying that tag's own type; when it is the width *)
(* it yields the value(s) read big-endian.                                 *)
(***************************************************************************)
C20_FixedWidthDecode ==
    ( /\ last.op = "tag_from_buffer"
      /\ buf.len >= 4
      /\ read_u16(buf, 0) \in FixedWidthTypes
      /\ 4 + read_u16(buf, 2) <= buf.len )
    => IF read_u16(buf, 2) # ValueWidth(read_u16(buf, 0))
       THEN /\ IsErr(last.res)
            /\ last.res.err = "TagWithInvalidLength"
            /\ last.res.a = read_u16(buf, 0)
       ELSE /\ IsOk(last.res)
            /\ read_u16(buf, 0) # 0 => last.tag.n1 = ByteAt(buf, 4) * 256 + ByteAt(buf, 5)
            /\ read_u16(buf, 0) = 262 => last.tag.n2 = ByteAt(buf, 6) * 256 + ByteAt(buf, 7)

(***************************************************************************)
(* C21.  Walking a payload left to right with no earlier violation: when   *)
(* 1 to 3 bytes remain at a tag boundary the parse fails with              *)
(* IncompleteTagAtPacketEnd carrying the payload's length and the bytes    *)
(* left over; when 4 bytes or more remain and the length of a tag that is  *)
(* not End-Of-List, plus 4, exceeds them, it fails with                    *)
(* TagLengthOutOfBound; and the walk reads no byte at or beyond the        *)
(* payload's end.                                                          *)
(***************************************************************************)
LastMet(b) == Payload(b)[Len(Payload(b))]

\* the last tag met is not End-Of-List and runs past the payload's end
Overruns(b) ==
    /\ Payload(b) # <<>>
    /\ LastMet(b).t # 0
    /\ LastMet(b).at + 4 + LastMet(b).l > PayloadEnd(b)

\* the bytes left at the tag boundary where the walk stops
LeftOver(b) == PayloadEnd(b) - WalkEnd(Payload(b), 6)

StopsShort(b) ==
    /\ Payload(b) # <<>> => LastMet(b).t # 0
    /\ ~Overruns(b)
    /\ LeftOver(b) \in 1 .. 3

C21_TagWalkBounds ==
    (ParsedAsIs /\ ValidHeader(buf) /\ PayloadLength(buf) > 0 /\ NoRepeat(Payload(buf))) =>
        /\ StopsShort(buf) =>
              last.res = Err("IncompleteTagAtPacketEnd", PayloadLength(buf), LeftOver(buf))
        /\ Overruns(buf) =>
              IsErr(last.res) /\ last.res.err = "TagLengthOutOfBound"
        /\ ValidateReadEnd(buf, 6, PayloadEnd(buf), {}, 6) <= PayloadEnd(buf)

\* one byte is left after a complete tag
C21_Witness ==
    /\ ParsedAsIs /\ ValidHeader(buf) /\ NoRepeat(Payload(buf))
    /\ Payload(buf) # <<>>
    /\ StopsShort(buf)
    /\ last.res = Err("IncompleteTagAtPacketEnd", PayloadLength(buf), 1)

(***************************************************************************)
(* C22.  The tag iterator of a header yields nothing after it has yielded  *)
(* End-Of-List: in the sequence of tags yielded, End-Of-List is met only   *)
(* as the last one, also when the payload was built by add_end_tag         *)
(* followed by add_tag.                                                    *)
(***************************************************************************)
C22_IteratorStopsAtEol ==
    \A i \in 1 .. (Len(yielded) - 1) : yielded[i].kind # "EndOfList"

(***************************************************************************)
(* A received header edited in place: from_buffer accepts the buffer and   *)
(* the mutators are called on the Header it returns.  The frames hold one  *)
(* piece, or a Service-Name tag that fills the 16-bit payload length.      *)
(***************************************************************************)
\* a frame whose payload is a Service-Name tag with a value of n zero bytes,
\* followed by what the buffer holds next (zero bytes: End-Of-List)
LongFrame(n, length, buflen) ==
    Frame(17, PADO, 0, length, <<1, 1>> \o BE16(n), buflen)

LongFrames ==
    { LongFrame(U16 - 15, U16 - 11, U16 + 8),   \* length 65525: the tag
      LongFrame(U16 - 15, U16 - 7, U16 + 8),    \* length 65529: the tag, End-Of-List
      LongFrame(U16 - 10, U16 - 6, U16 + 8),    \* length 65530: the tag
      LongFrame(U16 - 9, U16 - 1, U16 + 8) }    \* length 65535: the tag, End-Of-List

EditFrames ==
    { Frame(17, PADO, 0, Len(Flatten(ps)), Flatten(ps), 6 + Len(Flatten(ps)) + extra) :
        ps \in PieceSeqs(MaxPieces), extra \in {0, 8} }

EditTags ==
    { Tag("ServiceName", 0, 0, 0, <<>>),
      Tag("AcCookie", 0, 0, 0, <<97, 98, 99>>),
      Tag("PppMaxMtu", 0, 1500, 0, <<>>) }

\* Header::len()
HeaderLen ==
    /\ hdr # "none"
    /\ \E wrap \in Builds(buf) : last' = Call("len", 0, NoTag, len(buf, wrap))
    /\ pre' = buf
    /\ UNCHANGED <<buf, hdr, iter, yielded, appended, calls, aux>>

InitEdit ==
    /\ buf \in {b \in EditFrames \cup LongFrames : IsOk(from_buffer(b))}
    /\ hdr = "none"
    /\ last = Call("", 0, NoTag, Ok(0))
    /\ pre = buf
    /\ iter = NoIter
    /\ yielded = <<>>
    /\ appended = <<>>
    /\ calls = 0
    /\ NoAux

NextEdit ==
    \/ ParseBuffer(NoCode)
    \/ \E tag \in EditTags : AddTag(tag)
    \/ AddEndTag
    \/ ClearPayload
    \/ ClearEol
    \/ TagIter
    \/ TagIterNext
    \/ HeaderLen

SpecEdit == InitEdit /\ [][NextEdit]_vars

(***************************************************************************)
(* The tags of a payload, walked to its end (End-Of-List does not stop     *)
(* this walk).                                                             *)
(***************************************************************************)
RECURSIVE AllTags(_, _, _)
AllTags(b, pos, end) ==
    LET t == read_u16(b, pos)
        l == read_u16(b, pos + 2)
    IN  IF end - pos < 4 \/ l + 4 > end - pos THEN <<>>
        ELSE <<Met(t, l, pos)>> \o AllTags(b, pos + 4 + l, end)

\* the payload is whole tags
WholeTags(b) == WalkEnd(AllTags(b, 6, PayloadEnd(b)), 6) = PayloadEnd(b)

\* the last tag of the payload is End-Of-List
EndsWithEol(b) ==
    /\ AllTags(b, 6, PayloadEnd(b)) # <<>>
    /\ AllTags(b, 6, PayloadEnd(b))[Len(AllTags(b, 6, PayloadEnd(b)))].t = 0

(***************************************************************************)
(* C23.  clear_eol removes exactly a trailing End-Of-List tag: when the    *)
(* last tag of the payload is End-Of-List the payload length decreases by  *)
(* 4; otherwise, an empty payload included, it is unchanged; in both cases *)
(* the code, the session id and the bytes of the remaining payload are     *)
(* unchanged.                                                              *)
(***************************************************************************)
C23_ClearEol ==
    (last.op = "clear_eol" /\ PayloadEnd(pre) <= pre.len /\ WholeTags(pre)) =>
        /\ IsOk(last.res)
        /\ PayloadLength(buf) = IF EndsWithEol(pre) THEN PayloadLength(pre) - 4
                                ELSE PayloadLength(pre)
        /\ code(buf) = code(pre)
        /\ session_id(buf) = session_id(pre)
        /\ \A j \in DOMAIN buf.mem \cup DOMAIN pre.mem :
              (6 <= j /\ j < PayloadEnd(buf)) => ByteAt(buf, j) = ByteAt(pre, j)

(***************************************************************************)
(* header.rs: add_vendor_tag_with_callback.  The callback is given the     *)
(* slice after the four bytes of the tag's header; cb.data is what it      *)
(* writes at the start of that slice and cb.res what it returns.           *)
(***************************************************************************)
Callback(res, data) == [res |-> res, data |-> data]

\* Header::add_vendor_tag_with_callback
add_vendor_tag_with_callback(b, cb, wrap) ==
    LET packet_length == len(b, wrap)
        buffer_length == b.len
        free    == buffer_length - packet_length.a
        tail    == packet_length.a + 4
        called  == WriteBytes(b, tail, SubSeq(cb.data, 1, Min(Len(cb.data), free - 4)))
        vendor_tag_length == cb.res.a
    IN  IF ~IsOk(packet_length) THEN Written(packet_length, b)
        ELSE IF packet_length.a > buffer_length \/ free < 4
        THEN Written(Panic("slice index out of range"), b)
        ELSE IF ~IsOk(cb.res) THEN Written(cb.res, called)
        ELSE Written(Ok(0),
               set_len(write_u16(write_u16(called, packet_length.a, TAG_VENDOR_SPECIFIC),
                                 packet_length.a + 2, AsU16(vendor_tag_length)),
                       AsU16(packet_length.a - 6 + vendor_tag_length + 4)))

\* Header::add_vendor_tag_with_callback(callback)
AddVendorTagWithCallback(cb) ==
    /\ hdr # "none"
    /\ Writing
    /\ \E wrap \in Builds(buf) :
         LET w == add_vendor_tag_with_callback(buf, cb, wrap)
         IN  /\ last' = Call("add_vendor_tag_with_callback", cb, NoTag, w.res)
             /\ buf' = w.buf
             /\ appended' = IF IsOk(w.res)
                            THEN Append(appended, Tag("VendorSpecific", 0, 0, 0, cb.data))
                            ELSE appended
    /\ pre' = buf
    /\ iter' = NoIter
    /\ yielded' = <<>>
    /\ UNCHANGED <<hdr, aux>>

\* callbacks that write n bytes and return Ok(n), one that returns more than
\* the slice can hold, and ones that fail, before or after writing
Callbacks ==
    { Callback(Ok(n), SubSeq(<<7, 8, 9>>, 1, n)) : n \in 0 .. 3 }
      \cup { Callback(Ok(20), <<7, 8, 9>>),
             Callback(Err("BufferTooSmall", 0, 0), <<>>),
             Callback(Err("BufferTooSmall", 2, 0), <<7, 8>>) }

NextVendor ==
    \/ \E c \in Codes : CreatePacket(c, 0)
    \/ \E cb \in Callbacks : AddVendorTagWithCallback(cb)
    \/ \E tag \in EditTags : AddTag(tag)

SpecVendor == Init /\ [][NextVendor]_vars

(***************************************************************************)
(* C24.  add_vendor_tag_with_callback: when the callback returns Ok(n)     *)
(* after writing n bytes into the slice it was given, the header writes    *)
(* type 0x0105 and length n before those bytes and the payload length      *)
(* grows by 4 + n; when the callback fails, its error is returned and the  *)
(* payload length is unchanged; and whatever the callback returns and      *)
(* however few bytes are free, the call returns Ok or an error and leaves  *)
(* 6 + payload length within the buffer.                                   *)
(***************************************************************************)
\* the callback had room for what it wrote and returned its length
Honest(cb, b) ==
    /\ IsOk(cb.res)
    /\ cb.res.a = Len(cb.data)
    /\ PayloadEnd(b) + 4 + cb.res.a <= b.len

C24_VendorCallback ==
    last.op = "add_vendor_tag_with_callback" =>
        /\ last.res.kind \in {"Ok", "Err"}
        /\ PayloadEnd(buf) <= buf.len
        /\ Honest(last.arg, pre) =>
              /\ IsOk(last.res)
              /\ PayloadLength(buf) = PayloadLength(pre) + 4 + last.arg.res.a
              /\ Slice(buf, PayloadEnd(pre), PayloadEnd(buf))
                    = <<1, 5>> \o BE16(last.arg.res.a) \o last.arg.data
        /\ IsErr(last.arg.res) =>
              /\ last.res = last.arg.res
              /\ PayloadLength(buf) = PayloadLength(pre)

(***************************************************************************)
(* C25.  TR-101 encode size: the value write() returns is the number of    *)
(* bytes it has stored, 4 + (2 + cid_len when a circuit id is set) +       *)
(* (2 + rid_len when a remote id is set) + 5 + 14 * 6; write() fails with  *)
(* BufferTooSmall(required) exactly when the buffer is shorter than that   *)
(* size; and on success no byte at or beyond the returned length changes.  *)
(***************************************************************************)
\* the size of the encoding: vendor id, the ids that are set, the
\* encapsulation sub-TLV and the fourteen rate and delay sub-TLVs
EncodedSize(t) ==
    4 + (IF t.circuit_id.n # 0 THEN 2 + t.circuit_id.n ELSE 0)
      + (IF t.remote_id.n # 0 THEN 2 + t.remote_id.n ELSE 0)
      + 5 + 14 * 6

C25_EncodeSize ==
    last.op = "tr101_write" =>
        /\ IsErr(last.res) <=> pre.len < EncodedSize(tr101)
        /\ IsErr(last.res) => last.res = Err("BufferTooSmall", EncodedSize(tr101), 0)
        /\ IsOk(last.res) =>
              /\ last.res.a = EncodedSize(tr101)
              /\ last.res.a = Len(Tr101Bytes(tr101))
              /\ Slice(buf, last.res.a, buf.len) = Slice(pre, last.res.a, pre.len)

(***************************************************************************)
(* The calls on a Tr101Information that a caller holds: decoding a         *)
(* Vendor-Specific tag, and the id setters and getters                     *)
(***************************************************************************)
\* Tr101Information::try_from(Tag::VendorSpecific(value))
Tr101TryFrom(value) ==
    /\ Writing
    /\ last' = Call("tr101_try_from", value, NoTag,
                    Tr101_try_from(Tag("VendorSpecific", 0, 0, 0, value)))
    /\ pre' = buf
    /\ UNCHANGED <<buf, tr101, HeaderState>>

\* Tr101Information::set_circuit_id(s)
SetCircuitId(s) ==
    LET r == SetId(tr101.circuit_id, AGENT_CIRCUIT_ID, s)
    IN  /\ Writing
        /\ last' = Call("set_circuit_id", [s |-> s, was |-> tr101], NoTag, r.res)
        /\ tr101' = [tr101 EXCEPT !.circuit_id = r.id]
        /\ pre' = buf
        /\ UNCHANGED <<buf, HeaderState>>

\* Tr101Information::set_remote_id(s)
SetRemoteId(s) ==
    LET r == SetId(tr101.remote_id, AGENT_REMOTE_ID, s)
    IN  /\ Writing
        /\ last' = Call("set_remote_id", [s |-> s, was |-> tr101], NoTag, r.res)
        /\ tr101' = [tr101 EXCEPT !.remote_id = r.id]
        /\ pre' = buf
        /\ UNCHANGED <<buf, HeaderState>>

\* Tr101Information::circuit_id(); the call before it is kept with the result
CircuitId ==
    /\ Writing
    /\ last' = Call("circuit_id", last, NoTag, Ok(Tr101_circuit_id(tr101)))
    /\ pre' = buf
    /\ UNCHANGED <<buf, tr101, HeaderState>>

\* Tr101Information::remote_id()
RemoteId ==
    /\ Writing
    /\ last' = Call("remote_id", last, NoTag, Ok(Tr101_remote_id(tr101)))
    /\ pre' = buf
    /\ UNCHANGED <<buf, tr101, HeaderState>>

\* the vendor id as it stands in front of the sub-TLVs
VendorId == BE32(Wide(BROADBAND_FORUM_VENDOR_ID))

\* one rate or delay sub-TLV of each of the fourteen types
RateStreams == {<<RateType(i), 4>> \o BE32(v) : i \in 1 .. Len(RateFields), v \in {Wide(1000000)}}

\* sub-TLV streams: none, the rate and delay ones, a circuit id, an unknown
\* type, a sub-TLV cut short, a single byte behind a whole sub-TLV or alone
SubTlvStreams ==
    RateStreams \cup
    { <<>>, <<AGENT_CIRCUIT_ID, 3, 97, 98, 99>>, <<ACTUAL_DATA_RATE_UP, 4, 0, 0>>,
      <<ACTUAL_DATA_RATE_UP>>, <<254, 1, 7>>, <<254, 1, 7, AGENT_REMOTE_ID>>,
      <<ACTUAL_DATA_RATE_UP, 3, 0, 0, 1>> }

\* the values decoded: too short for a vendor id, another vendor's, the
\* streams behind the vendor id, and the streams behind the vendor id and 233
\* further bytes
Tr101Values ==
    { <<>>, <<0, 0, 13>>, <<0, 0, 13, 232>> \o <<ACTUAL_DATA_RATE_UP, 4, 0, 0, 0, 1>> }
    \cup {VendorId \o s : s \in SubTlvStreams}
    \cup {VendorId \o Repeat(0, 233) \o s : s \in SubTlvStreams}

\* the ids set: one byte, a word, the longest allowed, one byte more, many more
IdStrings == {<<120>>, <<99, 105, 114, 99, 117, 105, 116>>, Repeat(99, 63), Repeat(99, 64), Repeat(114, 100)}

InitTr101Calls ==
    /\ buf = MkBuffer(0, <<>>)
    /\ hdr = "none"
    /\ last = Call("", 0, NoTag, Ok(0))
    /\ pre = buf
    /\ iter = NoIter
    /\ yielded = <<>>
    /\ appended = <<>>
    /\ calls = 0
    /\ pado = MkBuffer(0, <<>>)
    /\ tr101 = Tr101Default
    /\ eth = MkBuffer(0, <<>>)

NextTr101Calls ==
    \/ \E value \in Tr101Values : Tr101TryFrom(value)
    \/ \E s \in IdStrings : SetCircuitId(s)
    \/ \E s \in IdStrings : SetRemoteId(s)
    \/ CircuitId
    \/ RemoteId

SpecTr101Calls == InitTr101Calls /\ [][NextTr101Calls]_vars

(***************************************************************************)
(* C26.  TR-101 decode is total and stays inside the value: try_from of a  *)
(* Vendor-Specific tag returns Ok or a ParseError for every value; a       *)
(* sub-TLV whose length + 2 exceeds the bytes that remain, a single last   *)
(* byte without a length octet included, gives Tr101LengthOutOfBound; and  *)
(* the walk over the sub-TLVs starts behind the four bytes of the vendor   *)
(* id.                                                                     *)
(***************************************************************************)
\* the sub-TLVs of a value decoded from behind the vendor id
BehindVendorId(value) == Tr101Loop(MkBuffer(Len(value), value), 4, Len(value), Tr101Default)

\* a value that ends inside a sub-TLV: the bytes behind its vendor id are
\* fewer than the sub-TLV asks for
CutShort ==
    {VendorId \o s : s \in {<<ACTUAL_DATA_RATE_UP, 4, 0, 0>>, <<ACTUAL_DATA_RATE_UP>>,
                            <<254, 1, 7, AGENT_REMOTE_ID>>}}

C26_DecodeTotal ==
    last.op = "tr101_try_from" =>
        /\ last.res.kind \in {"Ok", "Err"}
        /\ last.arg \in CutShort => last.res.err = "Tr101LengthOutOfBound"
        /\ (Len(last.arg) >= 4 /\ SubSeq(last.arg, 1, 4) = VendorId
            /\ BehindVendorId(last.arg).kind # "Panic")
              => last.res = BehindVendorId(last.arg)

(***************************************************************************)
(* C27.  TR-101 decode maps the sub-TLV types to the fields one to one:    *)
(* decoding a value that holds, behind the vendor id, one sub-TLV of type  *)
(* 0x81 .. 0x8E with length 4 and value v gives a Tr101Information whose   *)
(* field of that type (0x81 act_data_rate_up, ... 0x8E                     *)
(* act_interl_delay_down) is v and whose other fields are the defaults.    *)
(***************************************************************************)
\* the Tr101Information with the i-th rate or delay field set to v
OnlyField(i, v) == [Tr101Default EXCEPT !.rate[RateFields[i]] = v]

C27_DecodeFields ==
    (last.op = "tr101_try_from" /\ last.arg \in {VendorId \o s : s \in RateStreams}) =>
        /\ IsOk(last.res)
        /\ last.res.a = OnlyField(last.arg[5] - ACTUAL_DATA_RATE_UP + 1,
                                  read_u32(MkBuffer(Len(last.arg), last.arg), 6))

(***************************************************************************)
(* C28.  TR-101 id setters and getters: set_circuit_id(s) and              *)
(* set_remote_id(s) succeed for every s of 1 to 63 bytes, and the          *)
(* circuit_id() or remote_id() that follows returns s; for a longer s the  *)
(* setter fails with InvalidTr101TagLength and leaves the stored id and    *)
(* its length as they were; the stored length is never more than 63.       *)
(***************************************************************************)
C28_IdSettersGetters ==
    /\ tr101.circuit_id.n <= 63 /\ tr101.remote_id.n <= 63
    /\ last.op \in {"set_circuit_id", "set_remote_id"} =>
          IF Len(last.arg.s) <= 63
          THEN IsOk(last.res)
          ELSE last.res.err = "InvalidTr101TagLength" /\ tr101 = last.arg.was
    /\ (last.op = "circuit_id" /\ last.arg.op = "set_circuit_id" /\ IsOk(last.arg.res))
          => last.res.a = last.arg.arg.s
    /\ (last.op = "remote_id" /\ last.arg.op = "set_remote_id" /\ IsOk(last.arg.res))
          => last.res.a = last.arg.arg.s

(***************************************************************************)
(* C29.  Header length arithmetic does not wrap: on every header that      *)
(* parse has accepted or the builder calls have reached, len() is          *)
(* 6 + payload length as an unbounded integer, for payload lengths 65530   *)
(* to 65535 too, and add_tag stores the payload length grown by the size   *)
(* of the tag, never that sum modulo 2^16.                                 *)
(***************************************************************************)
C29_LengthDoesNotWrap ==
    /\ last.op = "len" => last.res = Ok(6 + PayloadLength(buf))
    /\ (last.op = "add_tag" /\ IsOk(last.res)) =>
          PayloadLength(buf) = PayloadLength(pre) + Len(Encoding(last.tag))

(***************************************************************************)
(* C30.  Parse depends only on the declared frame: two buffers that agree  *)
(* on their first 6 + L bytes, L being the payload length field and both   *)
(* buffers at least 6 + L long, get the same outcome from from_buffer:     *)
(* both are accepted, or both get the same error with the same field       *)
(* values; and from_buffer changes no byte of the buffer.                  *)
(***************************************************************************)
\* what may follow the frame in a buffer: nothing, padding, a single byte,
\* whole tags, End-Of-List, a tag cut short
Tails ==
    { <<>>, <<0>>, <<7>>, <<0, 0, 0, 0>>, <<1, 1, 0, 0>>, <<1, 3, 0, 9, 1>>,
      <<1, 16, 0, 2, 0, 3>>, <<255, 255, 255, 255, 255, 255>> }

\* the first 6 + L bytes of b followed by tail
WithTail(b, tail) ==
    LET frame == Slice(b, 0, 6 + PayloadLength(b))
    IN  MkBuffer(Len(frame) + Len(tail), frame \o tail)

C30_DeclaredFrameOnly ==
    (last.op = "from_buffer" /\ 6 + PayloadLength(pre) <= pre.len) =>
        /\ buf = pre
        /\ \A tail \in Tails :
              from_buffer_with_code(WithTail(pre, tail), last.arg) = last.res

\* a frame was accepted in a buffer that holds a non-zero byte behind the frame
C30_Witness ==
    /\ last.op = "from_buffer"
    /\ last.res.kind = "Ok"
    /\ 6 + PayloadLength(pre) < pre.len
    /\ ByteAt(pre, 6 + PayloadLength(pre)) # 0

=============================================================================
